---- MODULE Spec2Model ----
(***************************************************************************)
(* A model of the site-mirroring pipeline of src/scraper.py                *)
(* (WordPressScraper): URL discovery, page rewriting, page writing and     *)
(* asset download.  Strings are TLA+ strings handled character by          *)
(* character (Len, SubSeq, \o), so that the string operations of the code  *)
(* (rstrip, strip, endswith, split, urlparse, urljoin, os.path) are       *)
(* computed as the code computes them.                                     *)
(***************************************************************************)
EXTENDS Integers, Sequences, FiniteSets, TLC

\* a local name for a value: F is given v
Let(v, F(_)) == F(v)

(***************************************************************************)
(* Python string primitives                                                *)
(***************************************************************************)
Ch(s, i) == SubSeq(s, i, i)

StartsWith(s, p) == Len(s) >= Len(p) /\ SubSeq(s, 1, Len(p)) = p

EndsWith(s, p) == Len(s) >= Len(p) /\ SubSeq(s, Len(s) - Len(p) + 1, Len(s)) = p

\* Python "sub in s"
Contains(s, sub) ==
    \E i \in 1..(Len(s) - Len(sub) + 1) : SubSeq(s, i, i + Len(sub) - 1) = sub

\* s.find(sub) + 1 (0 when absent), searching from position i on
RECURSIVE FindFrom(_, _, _)
FindFrom(s, sub, i) ==
    IF i > Len(s) - Len(sub) + 1 THEN 0
    ELSE IF SubSeq(s, i, i + Len(sub) - 1) = sub THEN i
    ELSE FindFrom(s, sub, i + 1)

Find(s, sub) == FindFrom(s, sub, 1)

\* s.rfind(sub) + 1 (0 when absent), searching from position i down
RECURSIVE RFindFrom(_, _, _)
RFindFrom(s, sub, i) ==
    IF i < 1 THEN 0
    ELSE IF SubSeq(s, i, i + Len(sub) - 1) = sub THEN i
    ELSE RFindFrom(s, sub, i - 1)

RFind(s, sub) == RFindFrom(s, sub, Len(s) - Len(sub) + 1)

\* s.rstrip(chars): every trailing character that occurs in chars is dropped
RECURSIVE RStrip(_, _)
RStrip(s, chars) ==
    IF Len(s) > 0 /\ Contains(chars, Ch(s, Len(s)))
    THEN RStrip(SubSeq(s, 1, Len(s) - 1), chars)
    ELSE s

\* s.lstrip(chars)
RECURSIVE LStrip(_, _)
LStrip(s, chars) ==
    IF Len(s) > 0 /\ Contains(chars, Ch(s, 1))
    THEN LStrip(SubSeq(s, 2, Len(s)), chars)
    ELSE s

\* s.strip(chars)
Strip(s, chars) == LStrip(RStrip(s, chars), chars)

UpperChars == "ABCDEFGHIJKLMNOPQRSTUVWXYZ"
LowerChars == "abcdefghijklmnopqrstuvwxyz"

UpperSet == {Ch(UpperChars, i) : i \in 1..Len(UpperChars)}

LowerChar(c) ==
    IF c \in UpperSet THEN Ch(LowerChars, Find(UpperChars, c)) ELSE c

\* s.lower(), from position i on
RECURSIVE LowerFrom(_, _)
LowerFrom(s, i) ==
    IF i > Len(s) THEN ""
    ELSE LowerChar(Ch(s, i)) \o LowerFrom(s, i + 1)

\* s.lower()
Lower(s) ==
    IF \A i \in 1..Len(s) : Ch(s, i) \notin UpperSet THEN s ELSE LowerFrom(s, 1)

\* s.replace(old, new): every non-overlapping occurrence, left to right
RECURSIVE Replace(_, _, _)
Replace(s, old, new) ==
    IF Len(s) = 0 THEN ""
    ELSE IF StartsWith(s, old)
         THEN new \o Replace(SubSeq(s, Len(old) + 1, Len(s)), old, new)
         ELSE Ch(s, 1) \o Replace(SubSeq(s, 2, Len(s)), old, new)

\* s.split(sep) for a one-character separator: a sequence of strings
RECURSIVE Split(_, _)
Split(s, sep) ==
    Let(Find(s, sep), LAMBDA i :
        IF i = 0 THEN <<s>>
        ELSE <<SubSeq(s, 1, i - 1)>> \o Split(SubSeq(s, i + 1, Len(s)), sep))

\* sep.join(parts)
RECURSIVE Join(_, _)
Join(parts, sep) ==
    IF Len(parts) = 0 THEN ""
    ELSE IF Len(parts) = 1 THEN parts[1]
    ELSE parts[1] \o sep \o Join(Tail(parts), sep)

\* any(s.endswith(e) for e in exts)
EndsWithAny(s, exts) == \E e \in exts : EndsWith(s, e)

\* s * n
RECURSIVE Repeat(_, _)
Repeat(s, n) == IF n <= 0 THEN "" ELSE s \o Repeat(s, n - 1)

(***************************************************************************)
(* urllib.parse (the parts the scraper uses; no URL of the model holds a   *)
(* ";" parameter, a tab or a newline)                                      *)
(***************************************************************************)
SchemeChars == "abcdefghijklmnopqrstuvwxyzABCDEFGHIJKLMNOPQRSTUVWXYZ0123456789+-."
Letters == LowerChars \o UpperChars

\* the schemes of urllib.parse.uses_relative / uses_netloc that matter here
UsesRelative == {"", "http", "https", "ftp", "file"}
UsesNetloc == {"", "http", "https", "ftp", "file"}

\* the first position of s from i on that holds one of the characters of chars,
\* Len(s)+1 if none
RECURSIVE FirstOfFrom(_, _, _)
FirstOfFrom(s, chars, i) ==
    IF i > Len(s) THEN Len(s) + 1
    ELSE IF Contains(chars, Ch(s, i)) THEN i
    ELSE FirstOfFrom(s, chars, i + 1)

FirstOf(s, chars) == FirstOfFrom(s, chars, 1)

\* the query and the path of what is left of the URL once the scheme, the
\* netloc and the fragment are taken off
split_query(scheme, netloc, u3, fragment) ==
    Let(Find(u3, "?"), LAMBDA q :
        [scheme |-> scheme, netloc |-> netloc,
         path |-> IF q > 0 THEN SubSeq(u3, 1, q - 1) ELSE u3,
         query |-> IF q > 0 THEN SubSeq(u3, q + 1, Len(u3)) ELSE "",
         fragment |-> fragment])

\* the fragment of what is left of the URL once scheme and netloc are taken off
split_fragment(scheme, netloc, u2) ==
    Let(Find(u2, "#"), LAMBDA h :
        split_query(scheme, netloc,
                    IF h > 0 THEN SubSeq(u2, 1, h - 1) ELSE u2,
                    IF h > 0 THEN SubSeq(u2, h + 1, Len(u2)) ELSE ""))

\* the netloc of what is left of the URL once the scheme is taken off
split_netloc(scheme, u1) ==
    IF StartsWith(u1, "//")
    THEN Let(SubSeq(u1, 3, Len(u1)), LAMBDA rest :
         Let(FirstOf(rest, "/?#"), LAMBDA e :
             split_fragment(scheme, SubSeq(rest, 1, e - 1), SubSeq(rest, e, Len(rest)))))
    ELSE split_fragment(scheme, "", u1)

\* urlsplit(url): scheme, netloc, path, query, fragment
urlparse(url) ==
    Let(Find(url, ":"), LAMBDA i :
        IF /\ i > 1
           /\ Contains(Letters, Ch(url, 1))
           /\ \A k \in 1..(i - 1) : Contains(SchemeChars, Ch(url, k))
        THEN split_netloc(Lower(SubSeq(url, 1, i - 1)), SubSeq(url, i + 1, Len(url)))
        ELSE split_netloc("", url))

\* urlunsplit
urlunparse(scheme, netloc, path, query, fragment) ==
    Let(IF netloc # "" \/ (scheme # "" /\ scheme \in UsesNetloc /\ ~StartsWith(path, "//"))
        THEN "//" \o netloc \o (IF path # "" /\ ~StartsWith(path, "/") THEN "/" \o path ELSE path)
        ELSE path, LAMBDA u1 :
    Let(IF scheme # "" THEN scheme \o ":" \o u1 ELSE u1, LAMBDA u2 :
    Let(IF query # "" THEN u2 \o "?" \o query ELSE u2, LAMBDA u3 :
        IF fragment # "" THEN u3 \o "#" \o fragment ELSE u3)))

\* segments[1:-1] = filter(None, segments[1:-1])
RECURSIVE FilterEmpty(_)
FilterEmpty(segs) ==
    IF Len(segs) = 0 THEN <<>>
    ELSE IF segs[1] = "" THEN FilterEmpty(Tail(segs))
    ELSE <<segs[1]>> \o FilterEmpty(Tail(segs))

FilterInner(segs) ==
    IF Len(segs) <= 2 THEN segs
    ELSE <<segs[1]>> \o FilterEmpty(SubSeq(segs, 2, Len(segs) - 1)) \o <<segs[Len(segs)]>>

\* the dot-segment loop of urljoin
RECURSIVE ResolveDots(_, _)
ResolveDots(segs, acc) ==
    IF Len(segs) = 0 THEN acc
    ELSE IF segs[1] = ".."
         THEN ResolveDots(Tail(segs), IF Len(acc) > 0 THEN SubSeq(acc, 1, Len(acc) - 1) ELSE acc)
    ELSE IF segs[1] = "." THEN ResolveDots(Tail(segs), acc)
    ELSE ResolveDots(Tail(segs), Append(acc, segs[1]))

\* the path urljoin gives a reference with the path upath under the base path bpath
join_path(bpath, upath) ==
    Let(Split(bpath, "/"), LAMBDA bp0 :
    Let(IF StartsWith(upath, "/")
        THEN Split(upath, "/")
        ELSE FilterInner((IF bp0[Len(bp0)] # "" THEN SubSeq(bp0, 1, Len(bp0) - 1) ELSE bp0)
                         \o Split(upath, "/")), LAMBDA segments :
    Let(ResolveDots(segments, <<>>), LAMBDA r0 :
    Let(Join(IF segments[Len(segments)] \in {".", ".."} THEN Append(r0, "") ELSE r0, "/"),
        LAMBDA joined : IF joined = "" THEN "/" ELSE joined))))

\* urljoin once both URLs are split
urljoin_parts(b, u0, url) ==
    Let(IF u0.scheme = "" THEN b.scheme ELSE u0.scheme, LAMBDA scheme :
        IF scheme # b.scheme \/ scheme \notin UsesRelative THEN url
        ELSE IF scheme \in UsesNetloc /\ u0.netloc # ""
        THEN urlunparse(scheme, u0.netloc, u0.path, u0.query, u0.fragment)
        ELSE IF u0.path = ""
        THEN urlunparse(scheme, IF scheme \in UsesNetloc THEN b.netloc ELSE u0.netloc, b.path,
                        IF u0.query = "" THEN b.query ELSE u0.query, u0.fragment)
        ELSE urlunparse(scheme, IF scheme \in UsesNetloc THEN b.netloc ELSE u0.netloc,
                        join_path(b.path, u0.path), u0.query, u0.fragment))

urljoin(base, url) ==
    IF base = "" THEN url
    ELSE IF url = "" THEN base
    ELSE urljoin_parts(urlparse(base), urlparse(url), url)

(***************************************************************************)
(* os.path (posix)                                                         *)
(***************************************************************************)
os_path_join(a, b) ==
    IF StartsWith(b, "/") THEN b
    ELSE IF a = "" \/ EndsWith(a, "/") THEN a \o b
    ELSE a \o "/" \o b

os_path_dirname(p) ==
    Let(SubSeq(p, 1, RFind(p, "/")), LAMBDA head :
    Let(RStrip(head, "/"), LAMBDA stripped :
        IF head # "" /\ stripped # "" THEN stripped ELSE head))

os_path_basename(p) == SubSeq(p, RFind(p, "/") + 1, Len(p))

\* os.path.splitext: <<root, ext>>; leading dots of the file name are no extension
os_path_splitext(p) ==
    Let(RFind(p, "/"), LAMBDA sepIndex :
    Let(RFind(p, "."), LAMBDA dotIndex :
        IF dotIndex > sepIndex /\ \E k \in (sepIndex + 1)..(dotIndex - 1) : Ch(p, k) # "."
        THEN <<SubSeq(p, 1, dotIndex - 1), SubSeq(p, dotIndex, Len(p))>>
        ELSE <<p, "">>))

(***************************************************************************)
(* WordPressScraper: the pure helpers                                      *)
(***************************************************************************)
\* the extension list shared by convert_to_relative_path and is_valid_asset
AssetExtensions ==
    {".jpg", ".jpeg", ".png", ".gif", ".svg", ".ico", ".webp",
     ".css", ".js",
     ".pdf", ".zip", ".doc", ".docx",
     ".woff", ".woff2", ".ttf", ".eot",
     ".mp4", ".avi", ".mov", ".mp3", ".wav",
     ".xml", ".json", ".txt"}

\* the extensions save_html_file stores as a file of that name
PageExtensions == {".html", ".htm", ".php", ".asp", ".aspx"}

\* invalid_paths of is_valid_asset
InvalidPaths == {"/wp-json/", "/wp-admin/", "?", "/feed/", "/xmlrpc.php", "/wp-login.php"}

\* a faulty normalize_url that removes one trailing slash only: C12 fails with it
normalize_url_one_slash(url) ==
    IF EndsWith(url, "/") THEN SubSeq(url, 1, Len(url) - 1) ELSE url

normalize_url(url) == RStrip(url, "/")

\* the hosts is_same_domain accepts for the domain of the run
same_domain_hosts(domain) == {domain, "www." \o domain, Replace(domain, "www.", "")}

is_same_domain(url, domain) == urlparse(url).netloc \in same_domain_hosts(domain)

\* a faulty is_valid_asset that forgets the two page checks: C9 fails with it
is_valid_asset_by_extension(url, scraped, discovered) ==
    IF EndsWithAny(Lower(urlparse(url).path), AssetExtensions)
    THEN ~(\E ip \in InvalidPaths : Contains(url, ip))
    ELSE FALSE

\* a faulty is_valid_asset that knows the pages scraped so far only, and not
\* the discovered ones: C23 fails with it
is_valid_asset_of_scraped(url, scraped, discovered) ==
    IF url \in scraped THEN FALSE
    ELSE IF EndsWithAny(Lower(urlparse(url).path), AssetExtensions)
         THEN ~(\E ip \in InvalidPaths : Contains(url, ip))
         ELSE FALSE

is_valid_asset(url, scraped, discovered) ==
    IF url \in scraped THEN FALSE
    ELSE IF url \in discovered THEN FALSE
    ELSE IF EndsWithAny(Lower(urlparse(url).path), AssetExtensions)
         THEN ~(\E ip \in InvalidPaths : Contains(url, ip))
         ELSE FALSE

\* a faulty depth that counts the directories above the referencing page and
\* not its last segment: C20 fails with it
page_depth_of_directory(current_page_url) ==
    Let(Split(urlparse(current_page_url).path, "/"), LAMBDA parts : Len(parts) - 2)

\* depth of the referencing page in convert_to_relative_path
page_depth(current_page_url) ==
    Let(urlparse(current_page_url).path, LAMBDA current_path :
        IF current_path = "" \/ current_path = "/" THEN 0
        ELSE Let(Strip(current_path, "/"), LAMBDA current_dir :
                 IF current_dir # "" THEN Len(Split(current_dir, "/")) ELSE 0))

\* the relative prefix of convert_to_relative_path
relative_prefix(current_page_url) ==
    Let(page_depth(current_page_url), LAMBDA depth :
        IF depth > 0 THEN Repeat("../", depth) ELSE "./")

\* what convert_to_relative_path puts after the relative prefix
relative_target(target_path) ==
    IF target_path = "" \/ target_path = "/" THEN "index.html"
    ELSE IF EndsWith(target_path, "/") THEN Strip(target_path, "/") \o "/index.html"
    ELSE IF EndsWithAny(Lower(target_path), AssetExtensions) THEN Strip(target_path, "/")
    ELSE IF EndsWith(target_path, ".html") \/ EndsWith(target_path, ".htm")
         THEN Strip(target_path, "/")
    ELSE Strip(target_path, "/") \o "/index.html"

convert_to_relative_path(target_url, current_page_url) ==
    relative_prefix(current_page_url) \o relative_target(urlparse(target_url).path)

(***************************************************************************)
(* The output directory: the set of directories and the files with their   *)
(* contents.  Paths are the strings the code hands to the OS.              *)
(***************************************************************************)
OutputDir == "out"

\* path and every proper ancestor of it (cut at "/"), the empty path left out
AncestorsAndSelf(path) ==
    {SubSeq(path, 1, i) : i \in {k \in 1..Len(path) : k = Len(path) \/ Ch(path, k + 1) = "/"}}
        \ {""}

\* os.makedirs(path, exist_ok=True): it raises when path or an ancestor of it
\* is a file, and then nothing was created
os_makedirs(fs, path) ==
    Let(AncestorsAndSelf(path), LAMBDA ancestors :
        IF \E a \in ancestors : a \in DOMAIN fs.files
        THEN [ok |-> FALSE, dirs |-> fs.dirs, files |-> fs.files]
        ELSE [ok |-> TRUE, dirs |-> fs.dirs \cup ancestors, files |-> fs.files])

\* a faulty directory test that also holds of a path inside a page directory:
\* C1 fails with it
isdir_or_in_page_directory(fs, path) ==
    path \in fs.dirs \/ os_path_dirname(path) \in fs.dirs \ {OutputDir}

os_path_isdir(fs, path) == path \in fs.dirs

\* open(path, "w") and write: it raises when path is a directory or its parent
\* is no directory
WriteFile(fs, path, content) ==
    Let(os_path_dirname(path), LAMBDA parent :
        IF path \in fs.dirs \/ (parent # "" /\ parent \notin fs.dirs)
        THEN [ok |-> FALSE, dirs |-> fs.dirs, files |-> fs.files]
        ELSE [ok |-> TRUE, dirs |-> fs.dirs,
              files |-> [q \in DOMAIN fs.files \cup {path} |->
                            IF q = path THEN content ELSE fs.files[q]]])

\* the file save_html_file writes the page with the URL path to
html_file_of_path(path) ==
    IF path = "" \/ path = "/" THEN os_path_join(OutputDir, "index.html")
    ELSE IF EndsWith(path, "/")
         THEN os_path_join(os_path_join(OutputDir, Strip(path, "/")), "index.html")
    ELSE IF EndsWithAny(Lower(path), PageExtensions)
         THEN Let(os_path_join(OutputDir, Strip(path, "/")), LAMBDA file_path :
                  IF EndsWith(file_path, ".html") THEN file_path ELSE file_path \o ".html")
    ELSE os_path_join(os_path_join(OutputDir, Strip(path, "/")), "index.html")

html_file_path(url) == html_file_of_path(urlparse(url).path)

\* the directory save_html_file creates before it computes the parent
\* directory ("" when it creates none)
html_dir_of_path(path) ==
    IF path = "" \/ path = "/" THEN ""
    ELSE IF EndsWith(path, "/") THEN os_path_join(OutputDir, Strip(path, "/"))
    ELSE IF EndsWithAny(Lower(path), PageExtensions)
         THEN Let(os_path_dirname(os_path_join(OutputDir, Strip(path, "/"))), LAMBDA d :
                  IF d # "" /\ d # OutputDir THEN d ELSE "")
    ELSE os_path_join(OutputDir, Strip(path, "/"))

\* the writes of save_html_file: dir_path is made, then the parent of the file
write_html(fs, dir_path, file_path, content) ==
    Let(IF dir_path # "" THEN os_makedirs(fs, dir_path) ELSE fs, LAMBDA fs1 :
    Let(os_path_dirname(file_path), LAMBDA parent_dir :
    Let(IF fs1.ok /\ parent_dir # "" /\ parent_dir # OutputDir
        THEN os_makedirs(fs1, parent_dir) ELSE fs1, LAMBDA fs2 :
        IF fs2.ok THEN WriteFile(fs2, file_path, content) ELSE fs2)))

\* a faulty save_html_file that stores every page but the root under its URL
\* path as it is: C27 fails with it
save_html_file_as_is(fs, url, content) ==
    Let(urlparse(url).path, LAMBDA path :
        write_html(fs, "",
                   IF path = "" \/ path = "/" THEN os_path_join(OutputDir, "index.html")
                   ELSE os_path_join(OutputDir, Strip(path, "/")),
                   content))

\* save_html_file(url, content) on the file system fs
save_html_file(fs, url, content) ==
    Let(urlparse(url).path, LAMBDA path :
        write_html(fs, html_dir_of_path(path), html_file_of_path(path), content))

(***************************************************************************)
(* The parsed document (BeautifulSoup tree): the elements in document      *)
(* order, each with the index of its parent (0 for the root element), its  *)
(* attributes, its own text, and alive = FALSE once it was decomposed.     *)
(* An empty id, class, role, aria or style stands for the attribute being  *)
(* absent as well (the code reads them with a default of "").              *)
(***************************************************************************)
Absent == "<absent>"

Node(tag, parent, id, class, text) ==
    [tag |-> tag, parent |-> parent, id |-> id, class |-> class, role |-> "",
     aria |-> "", style |-> "", text |-> text, src |-> Absent, href |-> Absent,
     poster |-> Absent, action |-> Absent, method |-> Absent, type |-> Absent,
     alive |-> TRUE]

\* whether element j lies in the subtree of element i
RECURSIVE InSubtree(_, _, _)
InSubtree(dom, j, i) ==
    IF j = i THEN TRUE
    ELSE IF j = 0 \/ j < i THEN FALSE
    ELSE InSubtree(dom, dom[j].parent, i)

\* element.decompose()
decompose(dom, i) ==
    [j \in 1..Len(dom) |-> IF InSubtree(dom, j, i) THEN [dom[j] EXCEPT !.alive = FALSE] ELSE dom[j]]

\* the elements of the set idx in document order
RECURSIVE in_document_order(_)
in_document_order(idx) ==
    IF idx = {} THEN <<>>
    ELSE Let(CHOOSE i \in idx : \A j \in idx : i <= j, LAMBDA first :
             <<first>> \o in_document_order(idx \ {first}))

\* the strings of the subtree of element i, in document order
subtree_strings(dom, i) ==
    Let(in_document_order({j \in i..Len(dom) :
            dom[j].alive /\ dom[j].text # "" /\ InSubtree(dom, j, i)}), LAMBDA idx :
        [k \in 1..Len(idx) |-> dom[idx[k]].text])

Whitespace == " "

RECURSIVE StripAll(_)
StripAll(strs) ==
    IF Len(strs) = 0 THEN <<>>
    ELSE Let(Strip(strs[1], Whitespace), LAMBDA t :
             (IF t = "" THEN <<>> ELSE <<t>>) \o StripAll(Tail(strs)))

\* element.get_text() and element.get_text(strip=True)
get_text(dom, i) == Join(subtree_strings(dom, i), "")
get_text_strip(dom, i) == Join(StripAll(subtree_strings(dom, i)), "")

\* cookie_selectors of remove_cookie_banners, in the order of the list:
\* "#" an id, "." a class, "c*" [class*=..], "i*" [id*=..]
cookie_selectors ==
    << <<"#", "cookie-banner">>, <<"#", "cookie-consent">>, <<"#", "cookie-notice">>,
       <<"#", "cookie-bar">>, <<"#", "cookiebar">>, <<"#", "cookie-popup">>,
       <<"#", "cookie-overlay">>, <<"#", "cookie-policy">>, <<"#", "gdpr-banner">>,
       <<"#", "gdpr-consent">>, <<"#", "privacy-banner">>, <<"#", "privacy-notice">>,
       <<"#", "cc-banner">>, <<"#", "cookieConsent">>, <<"#", "cookieBar">>,
       <<"#", "CookieConsent">>,
       <<".", "cookie-banner">>, <<".", "cookie-consent">>, <<".", "cookie-notice">>,
       <<".", "cookie-bar">>, <<".", "cookiebar">>, <<".", "cookie-popup">>,
       <<".", "cookie-overlay">>, <<".", "cookie-policy">>, <<".", "gdpr-banner">>,
       <<".", "gdpr-consent">>, <<".", "privacy-banner">>, <<".", "privacy-notice">>,
       <<".", "cookie-warning">>, <<".", "cookie-alert">>, <<".", "cookie-info">>,
       <<".", "cookie-dialog">>, <<".", "cc-banner">>, <<".", "cc-window">>,
       <<".", "cc-compliance">>, <<".", "cookieConsent">>, <<".", "cookie-consent-banner">>,
       <<".", "cookie-notification">>, <<".", "cookies-notice">>,
       <<".", "cookie-law-info-bar">>, <<".", "cli-bar-container">>,
       <<".", "moove_gdpr_cookie_info_bar">>, <<".", "gdpr-cookie-consent-banner">>,
       <<".", "wp-gdpr-cookie-notice">>, <<".", "catapult-cookie-bar">>,
       <<".", "borlabs-cookie-banner">>, <<".", "real-cookie-banner">>,
       <<".", "cookiebot-banner">>, <<".", "iubenda-cookie-banner">>,
       <<".", "complianz-cookie-banner">>, <<".", "cmplz-cookiebanner">>,
       <<".", "uk-cookie-consent">>, <<".", "eu-cookie-law">>, <<".", "cookie-choices-info">>,
       <<"c*", "cookie">>, <<"c*", "gdpr">>, <<"c*", "privacy">>,
       <<"i*", "cookie">>, <<"i*", "gdpr">>, <<"i*", "privacy">> >>

\* whether the element matches the CSS selector (the class names of an
\* element are the words of its class attribute)
selector_matches(node, sel) ==
    CASE sel[1] = "#" -> node.id = sel[2]
      [] sel[1] = "." -> node.class # "" /\ Contains(" " \o node.class \o " ", " " \o sel[2] \o " ")
      [] sel[1] = "c*" -> Contains(node.class, sel[2])
      [] OTHER -> Contains(node.id, sel[2])

\* soup.select(selector): the matching elements of the tree, in document order
soup_select(dom, sel) ==
    in_document_order({i \in 1..Len(dom) :
        /\ dom[i].alive
        /\ dom[i].id # "" \/ dom[i].class # ""
        /\ selector_matches(dom[i], sel)})

cookie_keywords ==
    {"cookie", "gdpr", "privacy", "consent", "tracking", "analytics",
     "datenschutz", "einverstanden", "zustimm", "akzeptier"}

is_likely_cookie_banner(node) ==
    Let(Join(<<Lower(node.id), node.class, Lower(node.role), Lower(node.aria)>>, " "),
        LAMBDA attrs_text : \E keyword \in cookie_keywords : Contains(attrs_text, keyword))

cookie_terms == {"cookie", "gdpr", "datenschutz", "privacy", "consent"}

action_terms ==
    {"akzeptieren", "zustimmen", "einverstanden", "ablehnen", "mehr erfahren",
     "accept", "agree", "consent", "decline", "learn more", "settings",
     "konfigurieren", "anpassen", "verwalten", "manage", "configure"}

BannerTextLimit == 1000

\* is_positioned of is_likely_cookie_banner_by_text
is_positioned(node) ==
    \/ \E pos \in {"fixed", "sticky", "absolute"} : Contains(Lower(node.style), pos)
    \/ \E pos \in {"top", "bottom", "overlay", "modal"} : Contains(Lower(node.class), pos)
    \/ \E pos \in {"top", "bottom", "overlay", "modal"} : Contains(Lower(node.id), pos)

is_likely_cookie_banner_by_text(dom, i) ==
    IF get_text_strip(dom, i) = "" THEN FALSE
    ELSE Let(Lower(get_text(dom, i)), LAMBDA text :
             /\ \E t \in cookie_terms : Contains(text, t)
             /\ \E t \in action_terms : Contains(text, t)
             /\ is_positioned(dom[i]) \/ Len(text) < BannerTextLimit)

\* the loop over the elements one selector matched.  Reading an attribute of
\* an element that an earlier decompose() destroyed raises, and the handler of
\* the selector loop goes on with the next selector.
RECURSIVE remove_selected(_, _, _)
remove_selected(dom, matched, j) ==
    IF j > Len(matched) THEN dom
    ELSE IF ~dom[matched[j]].alive THEN dom
    ELSE IF is_likely_cookie_banner(dom[matched[j]])
         THEN remove_selected(decompose(dom, matched[j]), matched, j + 1)
    ELSE remove_selected(dom, matched, j + 1)

\* the selectors of the list, by their position, that select an element of
\* the document before anything is removed: no other selects one later
selectors_in_use(dom) ==
    in_document_order({k \in 1..Len(cookie_selectors) :
        \E i \in 1..Len(dom) :
            /\ dom[i].id # "" \/ dom[i].class # ""
            /\ selector_matches(dom[i], cookie_selectors[k])})

\* the loop over the selectors
RECURSIVE remove_by_selectors(_, _, _)
remove_by_selectors(dom, sels, k) ==
    IF k > Len(sels) THEN dom
    ELSE Let(remove_selected(dom, soup_select(dom, cookie_selectors[sels[k]]), 1), LAMBDA d :
             remove_by_selectors(d, sels, k + 1))

BannerTags == {"div", "section", "aside", "header", "footer", "nav"}

\* soup.find_all(tags): the live elements with one of the tags, in document order
find_all(dom, tags) ==
    in_document_order({i \in 1..Len(dom) : dom[i].alive /\ dom[i].tag \in tags})

\* soup.find_all(tags, attr=True): those that carry the attribute
find_all_with(dom, tags, attr) ==
    in_document_order({i \in 1..Len(dom) :
        dom[i].alive /\ dom[i].tag \in tags /\ dom[i][attr] # Absent})

\* the loop of the text-based detection
RECURSIVE remove_by_text(_, _, _)
remove_by_text(dom, all_elements, j) ==
    IF j > Len(all_elements) THEN dom
    ELSE IF dom[all_elements[j]].alive /\ is_likely_cookie_banner_by_text(dom, all_elements[j])
         THEN remove_by_text(decompose(dom, all_elements[j]), all_elements, j + 1)
    ELSE remove_by_text(dom, all_elements, j + 1)

remove_cookie_banners(dom) ==
    Let(remove_by_selectors(dom, selectors_in_use(dom), 1), LAMBDA d1 :
        remove_by_text(d1, find_all(d1, BannerTags), 1))

(***************************************************************************)
(* process_html_assets: st = [dom, assets]                                 *)
(***************************************************************************)
\* a faulty loop that rewrites and registers every reference to the domain,
\* valid asset or not: C7 fails with it
RECURSIVE rewrite_loop_unchecked(_, _, _, _, _, _, _, _)
rewrite_loop_unchecked(st, elems, attr, page_url, domain, scraped, discovered, j) ==
    IF j > Len(elems) THEN st
    ELSE Let(urljoin(page_url, st.dom[elems[j]][attr]), LAMBDA absolute_url :
         rewrite_loop_unchecked(
            IF is_same_domain(absolute_url, domain)
            THEN [dom |-> [st.dom EXCEPT ![elems[j]][attr] =
                                convert_to_relative_path(absolute_url, page_url)],
                  assets |-> st.assets \cup {absolute_url}]
            ELSE st,
            elems, attr, page_url, domain, scraped, discovered, j + 1))

\* one loop of process_html_assets over the elements elems: the attribute of
\* an element whose URL is a valid asset of the domain is rewritten and the
\* URL joins the assets
RECURSIVE rewrite_loop(_, _, _, _, _, _, _, _)
rewrite_loop(st, elems, attr, page_url, domain, scraped, discovered, j) ==
    IF j > Len(elems) THEN st
    ELSE Let(urljoin(page_url, st.dom[elems[j]][attr]), LAMBDA absolute_url :
         rewrite_loop(
            IF is_same_domain(absolute_url, domain)
               /\ is_valid_asset(absolute_url, scraped, discovered)
            THEN [dom |-> [st.dom EXCEPT ![elems[j]][attr] =
                                convert_to_relative_path(absolute_url, page_url)],
                  assets |-> st.assets \cup {absolute_url}]
            ELSE st,
            elems, attr, page_url, domain, scraped, discovered, j + 1))

\* the loop over soup.find_all(tags, attr=True)
rewrite_assets(st, tags, attr, page_url, domain, scraped, discovered) ==
    rewrite_loop(st, find_all_with(st.dom, tags, attr), attr, page_url, domain, scraped, discovered, 1)

SkippedAnchorPrefixes == {"#", "mailto:", "tel:", "javascript:"}

\* the loop over the internal links
RECURSIVE anchor_loop(_, _, _, _, _)
anchor_loop(dom, elems, page_url, domain, j) ==
    IF j > Len(elems) THEN dom
    ELSE IF \E pre \in SkippedAnchorPrefixes : StartsWith(dom[elems[j]].href, pre)
         THEN anchor_loop(dom, elems, page_url, domain, j + 1)
    ELSE Let(urljoin(page_url, dom[elems[j]].href), LAMBDA absolute_url :
         anchor_loop(
            IF is_same_domain(absolute_url, domain)
            THEN [dom EXCEPT ![elems[j]].href = convert_to_relative_path(absolute_url, page_url)]
            ELSE dom,
            elems, page_url, domain, j + 1))

rewrite_anchors(st, page_url, domain) ==
    [dom |-> anchor_loop(st.dom, find_all_with(st.dom, {"a"}, "href"), page_url, domain, 1),
     assets |-> st.assets]

\* the loop that disables the forms
disable_forms(dom) ==
    [i \in 1..Len(dom) |->
        IF dom[i].alive /\ dom[i].tag = "form"
        THEN [dom[i] EXCEPT !.action = "", !.method = "get"]
        ELSE IF /\ dom[i].alive /\ dom[i].tag = "input" /\ dom[i].type = "submit"
                /\ \E f \in 1..Len(dom) :
                    f # i /\ dom[f].alive /\ dom[f].tag = "form" /\ InSubtree(dom, i, f)
        THEN [dom[i] EXCEPT !.type = "button"]
        ELSE dom[i]]

\* process_html_assets(soup, page_url): [dom, assets]
process_html_assets(dom, assets, page_url, domain, scraped, discovered) ==
    Let(rewrite_assets(
            rewrite_assets(
                rewrite_anchors(
                    rewrite_assets(
                        rewrite_assets(
                            rewrite_assets([dom |-> remove_cookie_banners(dom), assets |-> assets],
                                {"img"}, "src", page_url, domain, scraped, discovered),
                            {"link"}, "href", page_url, domain, scraped, discovered),
                        {"script"}, "src", page_url, domain, scraped, discovered),
                    page_url, domain),
                {"video", "audio", "source", "track"}, "src", page_url, domain, scraped, discovered),
            {"video"}, "poster", page_url, domain, scraped, discovered),
        LAMBDA st : [dom |-> disable_forms(st.dom), assets |-> st.assets])

(***************************************************************************)
(* The asset downloader                                                    *)
(***************************************************************************)
LogEntry(kind, a, b) == [kind |-> kind, a |-> a, b |-> b]

\* what a file holds: the page of url with its document as saved (dom) and as
\* fetched (dom0), or the asset of url with its url(...) references as they
\* stand (css) and as downloaded (css0)
PageFile(url, dom, dom0) ==
    [kind |-> "page", url |-> url, dom |-> dom, dom0 |-> dom0, css |-> <<>>, css0 |-> <<>>]

AssetFile(url, css, css0) ==
    [kind |-> "asset", url |-> url, dom |-> <<>>, dom0 |-> <<>>, css |-> css, css0 |-> css0]

CssSkippedPrefixes == {"http://", "https://", "data:", "//"}

\* whether replace_url rewrites the reference url of the stylesheet css_url
css_ref_rewritten(url, css_url, domain, scraped, discovered) ==
    IF \E pre \in CssSkippedPrefixes : StartsWith(url, pre) THEN FALSE
    ELSE Let(urljoin(css_url, url), LAMBDA absolute_url :
             /\ is_same_domain(absolute_url, domain)
             /\ is_valid_asset(absolute_url, scraped, discovered))

\* replace_url of process_css_file: the text put in url(...)
replace_url(url, css_url, domain, scraped, discovered) ==
    IF css_ref_rewritten(url, css_url, domain, scraped, discovered)
    THEN LStrip(convert_to_relative_path(urljoin(css_url, url), css_url), "./")
    ELSE url

\* the write-back of process_css_file
write_css(fs, assets, file_path, content, modified, new_assets) ==
    Let(IF modified # content
        THEN WriteFile(fs, file_path, [fs.files[file_path] EXCEPT !.css = modified])
        ELSE fs, LAMBDA written :
        [dirs |-> written.dirs, files |-> written.files, assets |-> assets \cup new_assets])

\* process_css_file(file_path, css_url): [dirs, files, assets]
process_css_file(fs, assets, file_path, css_url, domain, scraped, discovered) ==
    Let(fs.files[file_path].css, LAMBDA content :
        write_css(fs, assets, file_path, content,
                  [k \in 1..Len(content) |->
                      replace_url(content[k], css_url, domain, scraped, discovered)],
                  {urljoin(css_url, content[k]) : k \in {j \in 1..Len(content) :
                      css_ref_rewritten(content[j], css_url, domain, scraped, discovered)}}))

\* the name download_asset gives an asset whose path is a directory
conflict_name(asset_path) ==
    Let(os_path_basename(asset_path), LAMBDA base_name :
        IF Contains(base_name, ".")
        THEN Let(os_path_splitext(base_name), LAMBDA name_ext :
                 name_ext[1] \o "_asset" \o name_ext[2])
        ELSE base_name \o "_asset")

\* the part of download_asset from the write on: [dirs, files, assets, logs]
store_asset(fs1, assets, logs1, url, body, asset_path, file_path, domain, scraped, discovered) ==
    IF ~fs1.ok
    THEN [dirs |-> fs1.dirs, files |-> fs1.files, assets |-> assets,
          logs |-> logs1 \cup {LogEntry("Download fehlgeschlagen", url, "")}]
    ELSE IF os_path_isdir(fs1, file_path)
    THEN [dirs |-> fs1.dirs, files |-> fs1.files, assets |-> assets,
          logs |-> logs1 \cup {LogEntry("Kann Asset nicht speichern", asset_path, "")}]
    ELSE Let(WriteFile(fs1, file_path, AssetFile(url, body, body)), LAMBDA fs2 :
         IF ~fs2.ok
         THEN [dirs |-> fs2.dirs, files |-> fs2.files, assets |-> assets,
               logs |-> logs1 \cup {LogEntry("Download fehlgeschlagen", url, "")}]
         ELSE IF EndsWith(Lower(file_path), ".css")
         THEN Let(process_css_file(fs2, assets, file_path, url, domain, scraped, discovered),
                  LAMBDA r : [dirs |-> r.dirs, files |-> r.files, assets |-> r.assets,
                              logs |-> logs1])
         ELSE [dirs |-> fs2.dirs, files |-> fs2.files, assets |-> assets, logs |-> logs1])

\* the part of download_asset from the directory check on
place_asset(fs, assets, logs, url, body, asset_path, file_path, dir_path, domain, scraped, discovered) ==
    IF os_path_isdir(fs, file_path)
    THEN Let(conflict_name(asset_path), LAMBDA new_name :
             store_asset(IF dir_path # "" THEN os_makedirs(fs, dir_path) ELSE fs, assets,
                         logs \cup {LogEntry("Pfad-Konflikt", asset_path, new_name)},
                         url, body, asset_path, os_path_join(dir_path, new_name),
                         domain, scraped, discovered))
    ELSE store_asset(IF dir_path # "" THEN os_makedirs(fs, dir_path) ELSE fs, assets, logs,
                     url, body, asset_path, file_path, domain, scraped, discovered)

\* download_asset(url) once the response (its url(...) references: body) is
\* there: [dirs, files, assets, logs]
download_asset(fs, assets, logs, url, body, domain, scraped, discovered) ==
    Let(Strip(urlparse(url).path, "/"), LAMBDA asset_path :
        IF asset_path = ""
        THEN [dirs |-> fs.dirs, files |-> fs.files, assets |-> assets, logs |-> logs]
        ELSE Let(os_path_join(OutputDir, asset_path), LAMBDA file_path :
                 place_asset(fs, assets, logs, url, body, asset_path, file_path,
                             os_path_dirname(file_path), domain, scraped, discovered)))

(***************************************************************************)
(* The live site: what the origin serves.  The root URLs a run may be      *)
(* started with, the <loc> entries a sitemap may hold, the links the       *)
(* rendered homepage may hold, the document of each page and the url(...)  *)
(* references of each stylesheet.                                          *)
(***************************************************************************)
BaseUrls == {"https://www.x.io/", "https://awww.b"}

SitemapLocs == {"https://www.x.io/about/", "https://www.x.io/a_asset.png", "https://other.io/s"}

HomeLinks ==
    {"https://www.x.io/about/", "https://www.x.io/contact.html", "https://www.x.io/blog/",
     "https://www.x.io/page.php", "https://www.x.io/a.png", "https://x.io/a.png",
     "https://other.io/p", "https://ab/p"}

WithSrc(node, v) == [node EXCEPT !.src = v]
WithHref(node, v) == [node EXCEPT !.href = v]

DomHome ==
    << Node("html", 0, "", "", ""),
       Node("body", 1, "", "home", ""),
       WithHref(Node("link", 2, "", "", ""), "/style.css"),
       WithSrc(Node("img", 2, "", "", ""), "a.png"),
       WithSrc(Node("script", 2, "", "", ""), "/app.js?ver=1"),
       WithHref(Node("a", 2, "", "", "About"), "/about/"),
       Node("div", 2, "cookie-notice", "", "We use cookies."),
       WithSrc(Node("img", 7, "", "", ""), "/banner.png"),
       [Node("form", 2, "", "", "") EXCEPT !.action = "/search", !.method = "post"],
       [Node("input", 9, "", "", "") EXCEPT !.type = "submit"] >>

DomAbout ==
    << Node("html", 0, "", "", ""),
       Node("body", 1, "", "page", ""),
       WithHref(Node("link", 2, "", "", ""), "/style.css"),
       WithSrc(Node("img", 2, "", "", ""), "https://other.io/b.png"),
       Node("section", 2, "", "", "Cookie settings: accept or decline") >>

DomContact ==
    << Node("html", 0, "", "", ""),
       Node("body", 1, "", "page", ""),
       WithHref(Node("link", 2, "", "", ""), "/style.css"),
       WithHref(Node("a", 2, "", "", "Home"), "/"),
       WithSrc(Node("img", 2, "", "", ""), "https://www.x.io/../up.png") >>

DomBlog ==
    << Node("html", 0, "", "", ""),
       Node("body", 1, "", "blog", ""),
       WithHref(Node("link", 2, "", "", ""), "/css/style.css"),
       WithSrc(Node("img", 2, "", "", ""), "/blog/logo.png") >>

DomPrivacy ==
    << Node("html", 0, "", "", ""),
       Node("body", 1, "", "privacy-policy page", "Our policy"),
       WithHref(Node("link", 2, "", "", ""), "/style.css") >>

DomGallery ==
    << Node("html", 0, "", "", ""),
       Node("body", 1, "", "gallery", ""),
       WithSrc(Node("img", 2, "", "", ""), "/img/logo.png"),
       WithSrc(Node("img", 2, "", "", ""), "/img/logo.png/thumb.png") >>

DomPlain ==
    << Node("html", 0, "", "", ""),
       Node("body", 1, "", "", "Hello") >>

\* page.content() of the page at url
PageDom(url) ==
    Let(RStrip(urlparse(url).path, "/"), LAMBDA path :
        CASE path = "" -> DomHome
          [] path = "/about" -> DomAbout
          [] path = "/contact.html" -> DomContact
          [] path = "/blog" -> DomBlog
          [] path = "/page.php" -> DomPrivacy
          [] path = "/gallery" -> DomGallery
          [] OTHER -> DomPlain)

\* the url(...) references of the response body of the asset at url
CssBody(url) ==
    Let(urlparse(url).path, LAMBDA path :
        CASE path = "/style.css" -> <<"img/bg.png", "data:x", "https://other.io/f.woff">>
          [] path = "/css/style.css" -> <<"../fonts/a.woff">>
          [] OTHER -> <<>>)

\* the bounds of the model
MaxSitemapUrls == 1
MaxLinks == 2
MaxFailures == 1

SubsetsUpTo(S, n) == {T \in SUBSET S : Cardinality(T) <= n}

(***************************************************************************)
(* The state.  Each specification below moves one group of variables and   *)
(* leaves the other groups at rest.                                        *)
(***************************************************************************)
VARIABLES
    base_url,            \* self.base_url
    domain,              \* self.domain
    pc,                  \* where scrape() stands
    discovered_urls,     \* self.discovered_urls
    visited_urls,        \* self.visited_urls
    scraped_pages,       \* self.scraped_pages
    assets,              \* self.assets
    dirs,                \* the directories under the output directory
    files,               \* the files under the output directory
    logs,                \* the messages given to self.log
    assets_to_download,  \* the snapshot download_assets iterates over
    assets_done,         \* the part of the snapshot already iterated over
    failures,            \* the page fetches and downloads that failed so far
    progress             \* the page counts update_progress told the progress callback

\* the variables of a run of scrape()
run_vars == <<base_url, domain, pc, discovered_urls, visited_urls, scraped_pages, assets,
              dirs, files, logs, assets_to_download, assets_done, failures, progress>>

VARIABLES
    soup,                \* the parsed document the sanitizing steps work on
    soup_before,         \* the document as it was before the latest sanitizing
    passes               \* how often the document was sanitized

\* the variables of the sanitizing of one document
sanitize_vars == <<soup, soup_before, passes>>

VARIABLES
    target_url,          \* the URL handed to the helper
    page_url,            \* the URL of the referencing page handed to the helper
    called,              \* the helper that was called, "" before the call
    returned             \* what the helper returned

\* the variables of a call of a URL helper
url_vars == <<target_url, page_url, called, returned>>

VARIABLES
    active,              \* scraping_progress['active'] of the web application
    threads,             \* the scrape threads start_scraping created, in their order
    stopped,             \* the threads that were scraping when cancel_scraping was handled
    response             \* the answer to the latest request

\* the variables of the web application
app_vars == <<active, threads, stopped, response>>

VARIABLES
    site,                \* the sitemap documents the origin serves
    candidate,           \* the position of discover_sitemap_urls in its list
    stack,               \* the calls of parse_sitemap under way, the innermost last
    fetches,             \* how often each sitemap URL was requested
    found                \* the URLs parse_sitemap added to the discovery set

\* the variables of the sitemap discovery
sitemap_vars == <<site, candidate, stack, fetches, found>>

VARIABLES
    current_page,        \* the URL of the page scrape_page is processing ("" for none)
    pending              \* the loops of process_html_assets still to run on its soup

\* the variables of the rewriting of one page, loop by loop
rewrite_vars == <<current_page, pending>>

VARIABLES
    tasks,               \* session.tasks of the workflow session
    session_progress,    \* session.progress
    session_status,      \* session.status
    created              \* how many tasks the session was given so far

\* the variables of the workflow session
workflow_vars == <<tasks, session_progress, session_status, created>>

VARIABLES
    trace                \* the progress updates emitted and the fetches made, in their order

\* the variables of the progress reports
progress_vars == <<trace>>

vars == <<run_vars, sanitize_vars, url_vars, app_vars, sitemap_vars, rewrite_vars, workflow_vars, progress_vars>>

\* no run of scrape()
RunAtRest ==
    /\ base_url = "" /\ domain = "" /\ pc = "rest"
    /\ discovered_urls = {} /\ visited_urls = {} /\ scraped_pages = {} /\ assets = {}
    /\ dirs = {} /\ files = <<>> /\ logs = {}
    /\ assets_to_download = {} /\ assets_done = {} /\ failures = 0
    /\ progress = [total_pages |-> 0, completed_pages |-> 0]

\* no document at hand
SanitizeAtRest == soup = <<>> /\ soup_before = <<>> /\ passes = 0

\* no URL helper called
UrlAtRest == target_url = "" /\ page_url = "" /\ called = "" /\ returned = ""

\* the web application not started
AppAtRest == active = FALSE /\ threads = <<>> /\ stopped = {} /\ response = ""

\* no sitemap discovery
SitemapAtRest ==
    site = <<>> /\ candidate = 0 /\ stack = <<>> /\ fetches = <<>> /\ found = {}

\* no page in the hands of scrape_page
RewriteAtRest == current_page = "" /\ pending = {}

\* no workflow session
WorkflowAtRest ==
    /\ tasks = <<>> /\ session_status = "" /\ created = 0
    /\ session_progress = [total_tasks |-> 0, completed |-> 0, failed |-> 0]

\* nothing reported
ProgressAtRest == trace = <<>>

(***************************************************************************)
(* The run of scrape()                                                     *)
(***************************************************************************)
\* the variables a run of scrape() leaves alone
not_run_vars == <<sanitize_vars, url_vars, app_vars, sitemap_vars, rewrite_vars, workflow_vars, progress_vars>>

FS == [ok |-> TRUE, dirs |-> dirs, files |-> files]

\* __init__
Init ==
    /\ \E b \in BaseUrls :
        /\ base_url = RStrip(b, "/")
        /\ domain = urlparse(b).netloc
    /\ pc = "sitemap"
    /\ discovered_urls = {}
    /\ visited_urls = {}
    /\ scraped_pages = {}
    /\ assets = {}
    /\ dirs = {OutputDir}
    /\ files = <<>>
    /\ logs = {}
    /\ assets_to_download = {}
    /\ assets_done = {}
    /\ failures = 0
    /\ progress = [total_pages |-> 0, completed_pages |-> 0]
    /\ SanitizeAtRest
    /\ UrlAtRest
    /\ AppAtRest
    /\ SitemapAtRest
    /\ RewriteAtRest
    /\ WorkflowAtRest
    /\ ProgressAtRest

\* discover_sitemap_urls with parse_sitemap: no sitemap answers, or the sitemap
\* found holds the entries locs
DiscoverSitemapUrls ==
    /\ pc = "sitemap"
    /\ \E locs \in SubsetsUpTo(SitemapLocs, MaxSitemapUrls) :
        discovered_urls' = discovered_urls \cup
            {normalize_url(loc) : loc \in {l \in locs : is_same_domain(l, domain)}}
    /\ pc' = "homepage"
    /\ UNCHANGED <<base_url, domain, visited_urls, scraped_pages, assets, dirs, files, logs,
                   assets_to_download, assets_done, failures, progress>>
    /\ UNCHANGED not_run_vars

\* discovered_urls.add(base_url), discover_urls_from_page(context, base_url),
\* which logs a failure of its fetch and returns, and the report of total_pages
DiscoverUrlsFromPage ==
    /\ pc = "homepage"
    /\ \/ /\ discovered_urls' = discovered_urls \cup {base_url}
          /\ logs' = logs \cup {LogEntry("Fehler beim Entdecken von URLs", base_url, "")}
       \/ /\ \E links \in SubsetsUpTo(HomeLinks, MaxLinks) :
                discovered_urls' = discovered_urls \cup {base_url} \cup
                    {l \in {normalize_url(link) : link \in links} : is_same_domain(l, domain)}
          /\ UNCHANGED logs
    /\ progress' = [progress EXCEPT !.total_pages = Cardinality(discovered_urls')]
    /\ pc' = "pages"
    /\ UNCHANGED <<base_url, domain, visited_urls, scraped_pages, assets, dirs, files,
                   assets_to_download, assets_done, failures>>
    /\ UNCHANGED not_run_vars

\* a faulty page loop that crawls on: the links of the page it scrapes join the
\* discovery set: C24 fails with it
ScrapePageCrawling ==
    /\ pc = "pages"
    /\ \E url \in discovered_urls \ visited_urls :
        /\ visited_urls' = visited_urls \cup {url}
        /\ scraped_pages' = scraped_pages \cup {url}
        /\ discovered_urls' = discovered_urls \cup
                {l \in {normalize_url(urljoin(url, PageDom(url)[i].href)) :
                            i \in {j \in 1..Len(PageDom(url)) : PageDom(url)[j].tag = "a"}} :
                    is_same_domain(l, domain)}
        /\ progress' = [progress EXCEPT !.completed_pages = Cardinality(visited_urls)]
    /\ UNCHANGED <<base_url, domain, pc, assets, dirs, files, logs, assets_to_download,
                   assets_done, failures>>
    /\ UNCHANGED not_run_vars

\* a faulty page loop that lets the failure of a page end the run: C14 fails
\* with it
ScrapePageAborting ==
    /\ pc = "pages"
    /\ \E url \in discovered_urls \ visited_urls :
        /\ progress' = [progress EXCEPT !.completed_pages = Cardinality(visited_urls)]
        /\ \/ /\ failures < MaxFailures
              /\ failures' = failures + 1
              /\ logs' = logs \cup {LogEntry("Fehler beim Scraping", url, "")}
              /\ pc' = "raised"
              /\ UNCHANGED <<visited_urls, scraped_pages, assets, dirs, files>>
           \/ \E r \in {process_html_assets(PageDom(url), assets, url, domain,
                                            scraped_pages \cup {url}, discovered_urls)} :
              \E saved \in {save_html_file(FS, url, PageFile(url, r.dom, PageDom(url)))} :
                  /\ visited_urls' = visited_urls \cup {url}
                  /\ scraped_pages' = scraped_pages \cup {url}
                  /\ assets' = r.assets
                  /\ dirs' = saved.dirs
                  /\ files' = saved.files
                  /\ logs' = IF saved.ok THEN logs
                             ELSE logs \cup {LogEntry("Fehler beim Scraping", url, "")}
                  /\ UNCHANGED <<failures, pc>>
    /\ UNCHANGED <<base_url, domain, discovered_urls, assets_to_download, assets_done>>
    /\ UNCHANGED not_run_vars

\* one turn of the page loop of scrape(): the progress report,
\* scrape_page(context, url), which logs a failure and returns, and
\* visited_urls.add(url)
ScrapePage ==
    /\ pc = "pages"
    /\ \E url \in discovered_urls \ visited_urls :
        /\ progress' = [progress EXCEPT !.completed_pages = Cardinality(visited_urls)]
        /\ visited_urls' = visited_urls \cup {url}
        /\ \/ /\ failures < MaxFailures
              /\ failures' = failures + 1
              /\ logs' = logs \cup {LogEntry("Fehler beim Scraping", url, "")}
              /\ UNCHANGED <<scraped_pages, assets, dirs, files>>
           \/ \E r \in {process_html_assets(PageDom(url), assets, url, domain,
                                            scraped_pages \cup {url}, discovered_urls)} :
              \E saved \in {save_html_file(FS, url, PageFile(url, r.dom, PageDom(url)))} :
                  /\ scraped_pages' = scraped_pages \cup {url}
                  /\ assets' = r.assets
                  /\ dirs' = saved.dirs
                  /\ files' = saved.files
                  /\ logs' = IF saved.ok THEN logs
                             ELSE logs \cup {LogEntry("Fehler beim Scraping", url, "")}
                  /\ UNCHANGED failures
    /\ UNCHANGED <<base_url, domain, pc, discovered_urls, assets_to_download, assets_done>>
    /\ UNCHANGED not_run_vars

\* a faulty start of the download that does not wait for the page loop: C25
\* fails with it
StartDownloadEarly ==
    /\ pc = "pages"
    /\ assets_to_download' = assets
    /\ pc' = "assets"
    /\ UNCHANGED <<base_url, domain, discovered_urls, visited_urls, scraped_pages, assets,
                   dirs, files, logs, assets_done, failures, progress>>
    /\ UNCHANGED not_run_vars

\* the page loop is over: download_assets() takes its snapshot of self.assets
StartDownload ==
    /\ pc = "pages"
    /\ visited_urls = discovered_urls
    /\ assets_to_download' = assets
    /\ pc' = "assets"
    /\ UNCHANGED <<base_url, domain, discovered_urls, visited_urls, scraped_pages, assets,
                   dirs, files, logs, assets_done, failures, progress>>
    /\ UNCHANGED not_run_vars

\* one turn of the loop of download_assets: download_asset(asset_url)
DownloadAsset ==
    /\ pc = "assets"
    /\ \E url \in assets_to_download \ assets_done :
        /\ assets_done' = assets_done \cup {url}
        /\ \/ /\ failures < MaxFailures
              /\ failures' = failures + 1
              /\ logs' = logs \cup {LogEntry("Download fehlgeschlagen", url, "")}
              /\ UNCHANGED <<assets, dirs, files>>
           \/ \E r \in {download_asset(FS, assets, logs, url, CssBody(url), domain,
                                       scraped_pages, discovered_urls)} :
                  /\ assets' = r.assets
                  /\ dirs' = r.dirs
                  /\ files' = r.files
                  /\ logs' = r.logs
                  /\ UNCHANGED failures
    /\ UNCHANGED <<base_url, domain, pc, discovered_urls, visited_urls, scraped_pages,
                   assets_to_download, progress>>
    /\ UNCHANGED not_run_vars

\* download_assets() returned: the completion report
Finish ==
    /\ pc = "assets"
    /\ assets_done = assets_to_download
    /\ progress' = [progress EXCEPT !.completed_pages = Cardinality(visited_urls)]
    /\ pc' = "done"
    /\ UNCHANGED <<base_url, domain, discovered_urls, visited_urls, scraped_pages, assets,
                   dirs, files, logs, assets_to_download, assets_done, failures>>
    /\ UNCHANGED not_run_vars

Next ==
    \/ DiscoverSitemapUrls
    \/ DiscoverUrlsFromPage
    \/ ScrapePage
    \/ StartDownload
    \/ DownloadAsset
    \/ Finish

Spec == Init /\ [][Next]_vars

(***************************************************************************)
(* Sanitizing one document: the steps of process_html_assets that remove   *)
(* the cookie banners and disable the forms, run again and again on the    *)
(* same tree.                                                              *)
(***************************************************************************)
\* the sanitizing steps of process_html_assets, the rewriting left aside
sanitize(dom) == disable_forms(remove_cookie_banners(dom))

\* the documents at hand: three div elements below the body, nested in every
\* way, each with or without a cookie class and a banner text, then a form
BannerClasses == {"", "cookie-wrap"}
BannerTexts == {"", "We use cookies. Accept"}
DivParents == {<<2, 2>>, <<2, 4>>, <<3, 2>>, <<3, 3>>, <<3, 4>>}

Document(parents, classes, texts) ==
    << Node("html", 0, "", "", ""),
       Node("body", 1, "", "", ""),
       Node("div", 2, "", classes[1], texts[1]),
       Node("div", parents[1], "", classes[2], texts[2]),
       Node("div", parents[2], "", classes[3], texts[3]),
       [Node("form", 2, "", "", "") EXCEPT !.action = "/search", !.method = "post"],
       [Node("input", 6, "", "", "") EXCEPT !.type = "submit"] >>

Documents ==
    {Document(parents, classes, texts) :
        parents \in DivParents,
        classes \in [1..3 -> BannerClasses],
        texts \in [1..3 -> BannerTexts]}

\* how often a document is sanitized
MaxPasses == 2

SanitizeInit ==
    /\ soup \in Documents
    /\ soup_before = soup
    /\ passes = 0
    /\ RunAtRest
    /\ UrlAtRest
    /\ AppAtRest
    /\ SitemapAtRest
    /\ RewriteAtRest
    /\ WorkflowAtRest
    /\ ProgressAtRest

\* remove_cookie_banners(soup) and the loop over the forms, on the tree as
\* the pass before left it
Sanitize ==
    /\ passes < MaxPasses
    /\ soup_before' = soup
    /\ soup' = sanitize(soup)
    /\ passes' = passes + 1
    /\ UNCHANGED <<run_vars, url_vars, app_vars, sitemap_vars, rewrite_vars, workflow_vars, progress_vars>>

SanitizeNext == Sanitize

SanitizeSpec == SanitizeInit /\ [][SanitizeNext]_vars

(***************************************************************************)
(* The URL helpers called on their own: normalize_url and                  *)
(* convert_to_relative_path, on the URLs of a site.                        *)
(***************************************************************************)
SiteRoot == "https://x"

SitePaths ==
    {"", "/about", "/a/b", "/a/b/c", "/img.png", "/IMG.PNG", "/css/style.css", "/page.html", "/post.php"}

TrailingSlashes == {"", "/", "//"}

SiteUrls == {SiteRoot \o path \o slashes : path \in SitePaths, slashes \in TrailingSlashes}

UrlInit ==
    /\ target_url \in SiteUrls
    /\ page_url \in SiteUrls
    /\ called = ""
    /\ returned = ""
    /\ RunAtRest
    /\ SanitizeAtRest
    /\ AppAtRest
    /\ SitemapAtRest
    /\ RewriteAtRest
    /\ WorkflowAtRest
    /\ ProgressAtRest

\* normalize_url(target_url)
NormalizeUrl ==
    /\ called = ""
    /\ called' = "normalize_url"
    /\ returned' = normalize_url(target_url)
    /\ UNCHANGED <<target_url, page_url, run_vars, sanitize_vars, app_vars, sitemap_vars, rewrite_vars, workflow_vars, progress_vars>>

\* convert_to_relative_path(target_url, page_url)
ConvertToRelativePath ==
    /\ called = ""
    /\ called' = "convert_to_relative_path"
    /\ returned' = convert_to_relative_path(target_url, page_url)
    /\ UNCHANGED <<target_url, page_url, run_vars, sanitize_vars, app_vars, sitemap_vars, rewrite_vars, workflow_vars, progress_vars>>

UrlNext == NormalizeUrl \/ ConvertToRelativePath

UrlSpec == UrlInit /\ [][UrlNext]_vars

(***************************************************************************)
(* The web application (app.py): the requests start_scraping and           *)
(* cancel_scraping, and the threads that run scrape_website.  A thread is  *)
(* [pc, url, pages_left, assets_left]: created by start_scraping ("new"),  *)
(* it resets the progress and discovers the pages ("pages"), fetches them, *)
(* downloads the assets ("assets") and ends ("done").                      *)
(***************************************************************************)
\* the url field of the requests
RequestUrls == {"", "x.io", "https://x.io", "https://"}

\* the bounds of the application: the scraping sessions created, and the
\* pages and assets of a site
MaxSessions == 2
MaxPages == 2
MaxAssets == 1

\* the thread was started and has not ended
Alive(t) == threads[t].pc # "done"

\* the thread is inside scrape()
Scraping(t) == threads[t].pc \in {"pages", "assets"}

AppInit ==
    /\ active = FALSE
    /\ threads = <<>>
    /\ stopped = {}
    /\ response = ""
    /\ RunAtRest
    /\ SanitizeAtRest
    /\ UrlAtRest
    /\ SitemapAtRest
    /\ RewriteAtRest
    /\ WorkflowAtRest
    /\ ProgressAtRest

\* the URL start_scraping goes on with
with_scheme(url) ==
    IF StartsWith(url, "http://") \/ StartsWith(url, "https://") THEN url ELSE "https://" \o url

\* POST /start_scraping
StartScraping ==
    /\ Len(threads) < MaxSessions
    /\ \E url \in RequestUrls :
        IF url = ""
        THEN response' = "URL ist erforderlich" /\ UNCHANGED threads
        ELSE IF urlparse(with_scheme(url)).netloc = ""
        THEN response' = "Ungueltige URL" /\ UNCHANGED threads
        ELSE IF active
        THEN response' = "Scraping laeuft bereits" /\ UNCHANGED threads
        ELSE /\ threads' = Append(threads, [pc |-> "new", url |-> with_scheme(url),
                                            pages_left |-> 0, assets_left |-> 0])
             /\ response' = "redirect"
    /\ UNCHANGED <<active, stopped, run_vars, sanitize_vars, url_vars, sitemap_vars, rewrite_vars, workflow_vars, progress_vars>>

\* POST /cancel_scraping
CancelScraping ==
    /\ active' = FALSE
    /\ stopped' = stopped \cup {t \in 1..Len(threads) : Scraping(t)}
    /\ response' = "success"
    /\ UNCHANGED <<threads, run_vars, sanitize_vars, url_vars, sitemap_vars, rewrite_vars, workflow_vars, progress_vars>>

\* scrape_website begins: it resets the progress and the scraper discovers
\* the pages and, with them, the assets of the site
ScrapeWebsiteBegins ==
    /\ \E t \in 1..Len(threads) :
        /\ threads[t].pc = "new"
        /\ \E np \in 1..MaxPages, na \in 0..MaxAssets :
            threads' = [threads EXCEPT ![t].pc = "pages", ![t].pages_left = np,
                                       ![t].assets_left = na]
    /\ active' = TRUE
    /\ UNCHANGED <<stopped, response, run_vars, sanitize_vars, url_vars, sitemap_vars, rewrite_vars, workflow_vars, progress_vars>>

\* one turn of the page loop of scrape() in a thread
ThreadScrapesPage ==
    /\ \E t \in 1..Len(threads) :
        /\ threads[t].pc = "pages"
        /\ threads[t].pages_left > 0
        /\ threads' = [threads EXCEPT ![t].pages_left = @ - 1]
    /\ UNCHANGED <<active, stopped, response, run_vars, sanitize_vars, url_vars, sitemap_vars, rewrite_vars, workflow_vars, progress_vars>>

\* the page loop is over: download_assets() begins
ThreadStartsDownload ==
    /\ \E t \in 1..Len(threads) :
        /\ threads[t].pc = "pages"
        /\ threads[t].pages_left = 0
        /\ threads' = [threads EXCEPT ![t].pc = "assets"]
    /\ UNCHANGED <<active, stopped, response, run_vars, sanitize_vars, url_vars, sitemap_vars, rewrite_vars, workflow_vars, progress_vars>>

\* one turn of the loop of download_assets() in a thread
ThreadDownloadsAsset ==
    /\ \E t \in 1..Len(threads) :
        /\ threads[t].pc = "assets"
        /\ threads[t].assets_left > 0
        /\ threads' = [threads EXCEPT ![t].assets_left = @ - 1]
    /\ UNCHANGED <<active, stopped, response, run_vars, sanitize_vars, url_vars, sitemap_vars, rewrite_vars, workflow_vars, progress_vars>>

\* scrape() returned and scrape_website ends
ScrapeWebsiteEnds ==
    /\ \E t \in 1..Len(threads) :
        /\ threads[t].pc = "assets"
        /\ threads[t].assets_left = 0
        /\ threads' = [threads EXCEPT ![t].pc = "done"]
    /\ active' = FALSE
    /\ UNCHANGED <<stopped, response, run_vars, sanitize_vars, url_vars, sitemap_vars, rewrite_vars, workflow_vars, progress_vars>>

AppNext ==
    \/ StartScraping
    \/ CancelScraping
    \/ ScrapeWebsiteBegins
    \/ ThreadScrapesPage
    \/ ThreadStartsDownload
    \/ ThreadDownloadsAsset
    \/ ScrapeWebsiteEnds

AppSpec == AppInit /\ [][AppNext]_vars

(***************************************************************************)
(* The sitemap discovery in detail: discover_sitemap_urls with the         *)
(* recursion of parse_sitemap.  A sitemap document is [sitemaps, urls]:    *)
(* the <loc> of its <sitemap> entries and of its <url> entries, in their   *)
(* order; a URL that serves no document answers 404.  A call of            *)
(* parse_sitemap under way is [url, next]: the document it parses and the  *)
(* <sitemap> entry it comes to next.                                       *)
(***************************************************************************)
SitemapRoot == "https://www.x.io"

\* sitemap_urls of discover_sitemap_urls
SitemapCandidates ==
    << SitemapRoot \o "/sitemap.xml", SitemapRoot \o "/wp-sitemap.xml",
       SitemapRoot \o "/sitemap_index.xml" >>

SitemapDoc(sitemaps, urls) == [sitemaps |-> sitemaps, urls |-> urls]

\* a document at the URL and nothing else
At(url, doc) == [u \in {url} |-> doc]

\* the sites: no sitemap; a URL set; an index of two URL sets; an index that
\* lists one URL set twice; an index that lists itself; two indexes that list
\* each other; a URL set and an index side by side
SitemapSites ==
    { <<>>,
      At("https://www.x.io/sitemap.xml", SitemapDoc(<<>>, <<"https://www.x.io/about/">>))
        @@ At("https://www.x.io/wp-sitemap.xml",
              SitemapDoc(<<"https://www.x.io/posts.xml">>, <<>>))
        @@ At("https://www.x.io/posts.xml",
              SitemapDoc(<<>>, <<"https://www.x.io/blog/", "https://www.x.io/blog">>)),
      At("https://www.x.io/sitemap.xml",
         SitemapDoc(<<>>, <<"https://www.x.io/about/", "https://other.io/s">>)),
      At("https://www.x.io/wp-sitemap.xml",
         SitemapDoc(<<"https://www.x.io/posts.xml", "https://www.x.io/pages.xml">>, <<>>))
        @@ At("https://www.x.io/posts.xml", SitemapDoc(<<>>, <<"https://www.x.io/blog/">>))
        @@ At("https://www.x.io/pages.xml", SitemapDoc(<<>>, <<"https://www.x.io/about/">>)),
      At("https://www.x.io/sitemap.xml",
         SitemapDoc(<<"https://www.x.io/pages.xml", "https://www.x.io/pages.xml">>, <<>>))
        @@ At("https://www.x.io/pages.xml", SitemapDoc(<<>>, <<"https://www.x.io/about/">>)),
      At("https://www.x.io/sitemap_index.xml",
         SitemapDoc(<<"https://www.x.io/sitemap_index.xml">>, <<"https://www.x.io/contact.html">>)),
      At("https://www.x.io/sitemap.xml",
         SitemapDoc(<<"https://www.x.io/a.xml", "https://www.x.io/gone.xml">>, <<>>))
        @@ At("https://www.x.io/a.xml",
              SitemapDoc(<<"https://www.x.io/sitemap.xml">>, <<"https://www.x.io/about/">>)) }

\* every URL a discovery may request
SitemapUrls ==
    {SitemapCandidates[k] : k \in 1..Len(SitemapCandidates)}
        \cup UNION {DOMAIN s : s \in SitemapSites}
        \cup UNION {{s[u].sitemaps[k] : k \in 1..Len(s[u].sitemaps)} : <<s, u>> \in
                        {su \in SitemapSites \X UNION {DOMAIN s : s \in SitemapSites} :
                            su[2] \in DOMAIN su[1]}}

\* the depth of calls at which Python ends the recursion with RecursionError
RecursionLimit == 4

SitemapInit ==
    /\ site \in SitemapSites
    /\ candidate = 1
    /\ stack = <<>>
    /\ fetches = [u \in SitemapUrls |-> 0]
    /\ found = {}
    /\ RunAtRest
    /\ SanitizeAtRest
    /\ UrlAtRest
    /\ AppAtRest
    /\ RewriteAtRest
    /\ WorkflowAtRest
    /\ ProgressAtRest

\* the answer to a request: the document at the URL, or none when the URL
\* serves none (status 404) or the request raises (answered = FALSE)
Answers(url, answered) == answered /\ url \in DOMAIN site

\* one turn of the loop of discover_sitemap_urls: the request of a candidate,
\* and on status 200 the call of parse_sitemap, after which the loop breaks
TryCandidate ==
    /\ stack = <<>>
    /\ candidate \in 1..Len(SitemapCandidates)
    /\ fetches' = [fetches EXCEPT ![SitemapCandidates[candidate]] = @ + 1]
    /\ \E answered \in BOOLEAN :
       IF Answers(SitemapCandidates[candidate], answered)
       THEN /\ stack' = <<[url |-> SitemapCandidates[candidate], next |-> 1]>>
            /\ candidate' = Len(SitemapCandidates) + 1
       ELSE /\ candidate' = candidate + 1
            /\ UNCHANGED stack
    /\ UNCHANGED <<site, found, run_vars, sanitize_vars, url_vars, app_vars, rewrite_vars, workflow_vars, progress_vars>>

\* one turn of the loop of parse_sitemap over the <sitemap> entries: the
\* request of the entry and, on status 200, the recursive call; the call
\* that exceeds the recursion limit raises, and the loop goes on
ParseChildSitemap ==
    /\ stack # <<>>
    /\ \E top \in {stack[Len(stack)]} :
        /\ top.next <= Len(site[top.url].sitemaps)
        /\ \E loc \in {site[top.url].sitemaps[top.next]}, answered \in BOOLEAN :
            /\ fetches' = [fetches EXCEPT ![loc] = @ + 1]
            /\ stack' = [stack EXCEPT ![Len(stack)].next = @ + 1] \o
                            (IF Answers(loc, answered) /\ Len(stack) < RecursionLimit
                             THEN <<[url |-> loc, next |-> 1]>>
                             ELSE <<>>)
    /\ UNCHANGED <<site, candidate, found, run_vars, sanitize_vars, url_vars, app_vars, rewrite_vars, workflow_vars, progress_vars>>

\* the loop of parse_sitemap over the <url> entries, and its return
ParseUrlEntries ==
    /\ stack # <<>>
    /\ \E top \in {stack[Len(stack)]} :
        /\ top.next > Len(site[top.url].sitemaps)
        /\ found' = found \cup
                {normalize_url(site[top.url].urls[k]) :
                    k \in {i \in 1..Len(site[top.url].urls) :
                            is_same_domain(site[top.url].urls[i], urlparse(SitemapRoot).netloc)}}
    /\ stack' = SubSeq(stack, 1, Len(stack) - 1)
    /\ UNCHANGED <<site, candidate, fetches, run_vars, sanitize_vars, url_vars, app_vars, rewrite_vars, workflow_vars, progress_vars>>

SitemapNext == TryCandidate \/ ParseChildSitemap \/ ParseUrlEntries

SitemapSpec == SitemapInit /\ [][SitemapNext]_vars

(***************************************************************************)
(* One workflow session of the agentic engine: its list of tasks, its      *)
(* progress counters and its status, under execute_workflow_session,       *)
(* modify_task, add_task and delete_task.                                   *)
(***************************************************************************)
MaxTasks == 3          \* tasks a session is given in all
MaxReported == 3       \* executions counted before the model stops executing

\* TaskPriority by its rank in _get_executable_tasks (critical 0, high 1, medium 2,
\* low 3); the calls of the model give a task high or medium
TaskPriorities == {1, 2}

\* a TodoTask as the dataclass builds it: status pending
TodoTask(id, priority, dependencies) ==
    [id |-> id, priority |-> priority, dependencies |-> dependencies, status |-> "pending"]

\* the progress of a WorkflowSession built from a list of tasks
NewProgress(ts) == [total_tasks |-> Len(ts), completed |-> 0, failed |-> 0]

\* the sessions the model starts from: one task, or two tasks of which the
\* second may depend on the first
FirstSessions ==
    { <<TodoTask(1, p, {})>> : p \in TaskPriorities }
    \cup { <<TodoTask(1, 2, {}), TodoTask(2, p, deps)>> :
               p \in TaskPriorities, deps \in {{}, {1}} }

WorkflowInit ==
    /\ tasks \in FirstSessions
    /\ session_progress = NewProgress(tasks)
    /\ session_status = "created"
    /\ created = Len(tasks)
    /\ RunAtRest
    /\ SanitizeAtRest
    /\ UrlAtRest
    /\ AppAtRest
    /\ SitemapAtRest
    /\ RewriteAtRest
    /\ ProgressAtRest

not_workflow_vars ==
    <<run_vars, sanitize_vars, url_vars, app_vars, sitemap_vars, rewrite_vars, progress_vars>>

\* the position of the task id in the list ts
TaskIndex(ts, id) == CHOOSE i \in DOMAIN ts : ts[i].id = id

TaskIds(ts) == {ts[i].id : i \in DOMAIN ts}

\* the tasks of ts that are neither completed nor failed and whose
\* dependencies are all completed, sorted by priority (the sort is stable)
get_executable_tasks(ts) ==
    LET completed_task_ids == {ts[i].id : i \in {j \in DOMAIN ts : ts[j].status = "completed"}}
        IsExecutable(t) == /\ t.status \notin {"completed", "failed"}
                           /\ t.dependencies \subseteq completed_task_ids
        executable == SelectSeq(ts, IsExecutable)
        Of(p) == SelectSeq(executable, LAMBDA t : t.priority = p)
    IN  Of(0) \o Of(1) \o Of(2) \o Of(3)

\* TaskExecutor.execute_task: the task ends completed or failed
execute_task(task, success) ==
    [task EXCEPT !.status = IF success THEN "completed" ELSE "failed"]

\* the loop of execute_workflow_session over the executable tasks: queue holds
\* the ids still to visit and outcome tells which executions succeed
RECURSIVE ExecuteLoop(_, _, _, _, _, _)
ExecuteLoop(ts, prog, queue, outcome, auto_execute, continue_on_failure) ==
    IF queue = <<>> THEN [tasks |-> ts, progress |-> prog]
    ELSE LET i == TaskIndex(ts, Head(queue))
         IN  IF ~auto_execute /\ ts[i].status = "pending"
             THEN ExecuteLoop(ts, prog, Tail(queue), outcome, auto_execute,
                              continue_on_failure)
             ELSE IF outcome[Head(queue)]
             THEN ExecuteLoop([ts EXCEPT ![i] = execute_task(@, TRUE)],
                              [prog EXCEPT !.completed = @ + 1],
                              Tail(queue), outcome, auto_execute, continue_on_failure)
             ELSE IF continue_on_failure
             THEN ExecuteLoop([ts EXCEPT ![i] = execute_task(@, FALSE)],
                              [prog EXCEPT !.failed = @ + 1],
                              Tail(queue), outcome, auto_execute, continue_on_failure)
             ELSE [tasks |-> [ts EXCEPT ![i] = execute_task(@, FALSE)],
                   progress |-> [prog EXCEPT !.failed = @ + 1]]

\* the status execute_workflow_session leaves the session in
FinalStatus(prog) ==
    IF prog.completed = prog.total_tasks THEN "completed"
    ELSE IF prog.failed > 0 THEN "failed"
    ELSE "partial"

\* execute_workflow_session(session_id, auto_execute)
ExecuteWorkflowSession ==
    /\ session_status # ""
    /\ session_progress.completed + session_progress.failed < MaxReported
    /\ \E auto_execute \in BOOLEAN, continue_on_failure \in BOOLEAN,
          outcome \in [TaskIds(tasks) -> BOOLEAN] :
          LET queue == [i \in DOMAIN get_executable_tasks(tasks) |->
                            get_executable_tasks(tasks)[i].id]
              r == ExecuteLoop(tasks, session_progress, queue, outcome, auto_execute,
                               continue_on_failure)
          IN  /\ tasks' = r.tasks
              /\ session_progress' = r.progress
              /\ session_status' = FinalStatus(r.progress)
    /\ UNCHANGED <<created, not_workflow_vars>>

\* modify_task(session_id, task_id, **updates): the priority or the status of
\* a task of the session is set
ModifyTask ==
    /\ session_status # ""
    /\ \E i \in DOMAIN tasks :
          \/ \E p \in TaskPriorities : tasks' = [tasks EXCEPT ![i].priority = p]
          \/ \E s \in {"pending", "cancelled"} : tasks' = [tasks EXCEPT ![i].status = s]
    /\ UNCHANGED <<session_progress, session_status, created, not_workflow_vars>>

\* add_task(session_id, task_data): a task with a new id is appended
AddTask ==
    /\ session_status # ""
    /\ created < MaxTasks
    /\ \E p \in TaskPriorities, deps \in {{}} \cup {{id} : id \in TaskIds(tasks)} :
          tasks' = Append(tasks, TodoTask(created + 1, p, deps))
    /\ created' = created + 1
    /\ session_progress' = [session_progress EXCEPT !.total_tasks = @ + 1]
    /\ UNCHANGED <<session_status, not_workflow_vars>>

\* delete_task(session_id, task_id)
DeleteTask ==
    /\ session_status # ""
    /\ \E i \in DOMAIN tasks :
          tasks' = [j \in 1 .. Len(tasks) - 1 |-> IF j < i THEN tasks[j] ELSE tasks[j + 1]]
    /\ session_progress' = [session_progress EXCEPT !.total_tasks = @ - 1]
    /\ UNCHANGED <<session_status, created, not_workflow_vars>>

WorkflowNext == ExecuteWorkflowSession \/ ModifyTask \/ AddTask \/ DeleteTask

WorkflowSpec == WorkflowInit /\ [][WorkflowNext]_vars

(***************************************************************************)
(* The rewriting of the pages, loop by loop.  scrape_page is taken in      *)
(* three steps: the fetch with mark_as_page and the removal of the cookie  *)
(* banners, the loops of process_html_assets one at a time, and the        *)
(* disabling of the forms with save_html_file.  The pages are taken in any *)
(* order, as the iteration over the set discovered_urls may, and so are    *)
(* the loops: a property of this specification holds of every order of the *)
(* loops, the order of the code among them.                                *)
(***************************************************************************)
RewriteBase == "https://www.x.io"

\* the pages the discovery may have found beside the root
RewriteLinks == {"https://www.x.io/about", "https://www.x.io/media", "https://www.x.io/a.png"}

DomMedia ==
    << Node("html", 0, "", "", ""),
       Node("body", 1, "", "media", ""),
       WithHref(Node("link", 2, "", "", ""), "/style.css"),
       WithSrc(Node("img", 2, "", "", ""), "/a.png"),
       WithSrc(Node("script", 2, "", "", ""), "/app.js"),
       WithHref(Node("a", 2, "", "", "About"), "/about/"),
       [Node("video", 2, "", "", "") EXCEPT !.src = "/v.mp4", !.poster = "/a.png"],
       WithSrc(Node("source", 7, "", "", ""), "/v.mp4"),
       WithSrc(Node("track", 7, "", "", ""), "subs.txt") >>

\* page.content() of the page at url
RewriteDom(url) == IF urlparse(url).path = "/media" THEN DomMedia ELSE PageDom(url)

\* the loops of process_html_assets in the order of the code
RewritePasses ==
    << [tags |-> {"img"}, attr |-> "src"],
       [tags |-> {"link"}, attr |-> "href"],
       [tags |-> {"script"}, attr |-> "src"],
       [tags |-> {"a"}, attr |-> "href"],
       [tags |-> {"video", "audio", "source", "track"}, attr |-> "src"],
       [tags |-> {"video"}, attr |-> "poster"] >>

\* one loop of process_html_assets on the soup and the assets st
RewritePass(st, pass) ==
    IF pass.tags = {"a"}
    THEN rewrite_anchors(st, current_page, domain)
    ELSE rewrite_assets(st, pass.tags, pass.attr, current_page, domain,
                        scraped_pages, discovered_urls)

\* the discovery is over
RewriteInit ==
    /\ base_url = RewriteBase
    /\ domain = urlparse(RewriteBase).netloc
    /\ pc = "pages"
    /\ discovered_urls \in {{RewriteBase} \cup links : links \in SUBSET RewriteLinks}
    /\ visited_urls = {}
    /\ scraped_pages = {}
    /\ assets = {}
    /\ dirs = {OutputDir}
    /\ files = <<>>
    /\ logs = {}
    /\ assets_to_download = {}
    /\ assets_done = {}
    /\ failures = 0
    /\ progress = [total_pages |-> Cardinality(discovered_urls), completed_pages |-> 0]
    /\ soup = <<>>
    /\ soup_before = <<>>
    /\ passes = 0
    /\ RewriteAtRest
    /\ UrlAtRest
    /\ AppAtRest
    /\ SitemapAtRest
    /\ WorkflowAtRest
    /\ ProgressAtRest

\* scrape_page up to the first loop of process_html_assets: page.content(),
\* mark_as_page(url), the soup and remove_cookie_banners(soup)
BeginScrapePage ==
    /\ pc = "pages"
    /\ current_page = ""
    /\ \E url \in discovered_urls \ visited_urls :
        /\ current_page' = url
        /\ progress' = [progress EXCEPT !.completed_pages = Cardinality(visited_urls)]
        /\ scraped_pages' = scraped_pages \cup {url}
        /\ soup' = remove_cookie_banners(RewriteDom(url))
        /\ soup_before' = RewriteDom(url)
    /\ pending' = 1..Len(RewritePasses)
    /\ UNCHANGED <<base_url, domain, pc, discovered_urls, visited_urls, assets, dirs, files,
                   logs, assets_to_download, assets_done, failures, passes>>
    /\ UNCHANGED <<url_vars, app_vars, sitemap_vars, workflow_vars, progress_vars>>

\* one loop of process_html_assets
RewriteLoop ==
    /\ current_page # ""
    /\ \E k \in pending :
        /\ \E st \in {RewritePass([dom |-> soup, assets |-> assets], RewritePasses[k])} :
            /\ soup' = st.dom
            /\ assets' = st.assets
        /\ pending' = pending \ {k}
    /\ UNCHANGED <<base_url, domain, pc, discovered_urls, visited_urls, scraped_pages, dirs,
                   files, logs, assets_to_download, assets_done, failures, progress,
                   soup_before, passes, current_page>>
    /\ UNCHANGED <<url_vars, app_vars, sitemap_vars, workflow_vars, progress_vars>>

\* the end of process_html_assets and of scrape_page: the forms are disabled,
\* save_html_file(url, str(soup)), a failure of it is logged, and
\* visited_urls.add(url)
EndScrapePage ==
    /\ current_page # ""
    /\ pending = {}
    /\ \E saved \in {save_html_file(FS, current_page,
                                    PageFile(current_page, disable_forms(soup), soup_before))} :
        /\ dirs' = saved.dirs
        /\ files' = saved.files
        /\ logs' = IF saved.ok THEN logs
                   ELSE logs \cup {LogEntry("Fehler beim Scraping", current_page, "")}
    /\ visited_urls' = visited_urls \cup {current_page}
    /\ current_page' = ""
    /\ soup' = <<>>
    /\ soup_before' = <<>>
    /\ UNCHANGED <<base_url, domain, pc, discovered_urls, scraped_pages, assets,
                   assets_to_download, assets_done, failures, progress, passes, pending>>
    /\ UNCHANGED <<url_vars, app_vars, sitemap_vars, workflow_vars, progress_vars>>

RewriteNext == BeginScrapePage \/ RewriteLoop \/ EndScrapePage

RewriteSpec == RewriteInit /\ [][RewriteNext]_vars

(***************************************************************************)
(* The progress reports of a run.  scrape() is taken report by report:    *)
(* every call of log and of update_progress reaches update_progress of the *)
(* web application, which stores what it is given in scraping_progress and *)
(* emits scraping_progress to the clients.  trace holds the emissions and, *)
(* between them, the fetches of the run; the rewriting and the files are   *)
(* left out.                                                               *)
(***************************************************************************)
ProgressBase == "https://www.x.io"

ProgressLinks == {"https://www.x.io/about", "https://www.x.io/blog"}

\* an entry of the trace: what happened, and scraping_progress at that time
Event(kind, p) ==
    [kind |-> kind, total_pages |-> p.total_pages, completed_pages |-> p.completed_pages]

\* update_progress(data) of the web application: data is stored and
\* scraping_progress is emitted
update_progress(tr, p) == Append(tr, Event("update", p))

\* the variables of a run the reports do not depend on
unreported_vars ==
    <<base_url, domain, scraped_pages, assets, dirs, files, assets_to_download, assets_done>>

\* scrape_website resets scraping_progress and calls scrape()
ProgressInit ==
    /\ base_url = ProgressBase
    /\ domain = urlparse(ProgressBase).netloc
    /\ pc = "start"
    /\ discovered_urls = {} /\ visited_urls = {} /\ scraped_pages = {} /\ assets = {}
    /\ dirs = {} /\ files = <<>> /\ logs = {}
    /\ assets_to_download = {} /\ assets_done = {} /\ failures = 0
    /\ progress = [total_pages |-> 0, completed_pages |-> 0]
    /\ trace = <<>>
    /\ SanitizeAtRest
    /\ UrlAtRest
    /\ AppAtRest
    /\ SitemapAtRest
    /\ RewriteAtRest
    /\ WorkflowAtRest

\* log("Starte WordPress Scraping...")
ReportStart ==
    /\ pc = "start"
    /\ trace' = update_progress(trace, progress)
    /\ pc' = "discover"
    /\ UNCHANGED <<discovered_urls, visited_urls, logs, failures, progress, current_page>>
    /\ UNCHANGED <<unreported_vars, sanitize_vars, url_vars, app_vars, sitemap_vars, pending,
                   workflow_vars>>

\* the discovery: the sitemaps, the root URL, and the render of the homepage,
\* whose failure is logged
Discover ==
    /\ pc = "discover"
    /\ \E links \in SUBSET ProgressLinks :
        discovered_urls' = {base_url} \cup links
    /\ \/ /\ trace' = Append(trace, Event("home", progress))
          /\ UNCHANGED <<logs, failures>>
       \/ /\ failures < MaxFailures
          /\ failures' = failures + 1
          /\ logs' = logs \cup {LogEntry("Fehler beim Entdecken von URLs", base_url, "")}
          /\ trace' = update_progress(Append(trace, Event("home", progress)), progress)
    /\ pc' = "total"
    /\ UNCHANGED <<visited_urls, progress, current_page>>
    /\ UNCHANGED <<unreported_vars, sanitize_vars, url_vars, app_vars, sitemap_vars, pending,
                   workflow_vars>>

\* update_progress({'total_pages': total_urls}) and log("Gefunden: ...")
ReportTotal ==
    /\ pc = "total"
    /\ progress' = [progress EXCEPT !.total_pages = Cardinality(discovered_urls)]
    /\ trace' = update_progress(update_progress(trace, progress'), progress')
    /\ pc' = "loop"
    /\ UNCHANGED <<discovered_urls, visited_urls, logs, failures, current_page>>
    /\ UNCHANGED <<unreported_vars, sanitize_vars, url_vars, app_vars, sitemap_vars, pending,
                   workflow_vars>>

\* the head of a turn of the page loop: log("Scraping: ...") and
\* update_progress({'current_page': url, 'completed_pages': i})
ReportPage ==
    /\ pc = "loop"
    /\ \E url \in discovered_urls \ visited_urls :
        current_page' = url
    /\ progress' = [progress EXCEPT !.completed_pages = Cardinality(visited_urls)]
    /\ trace' = update_progress(update_progress(trace, progress), progress')
    /\ pc' = "fetch"
    /\ UNCHANGED <<discovered_urls, visited_urls, logs, failures>>
    /\ UNCHANGED <<unreported_vars, sanitize_vars, url_vars, app_vars, sitemap_vars, pending,
                   workflow_vars>>

\* a faulty page fetch that takes a failed page off the total and reports it:
\* C26 fails with it
FetchPageDiscounting ==
    /\ pc = "fetch"
    /\ \/ /\ trace' = Append(trace, Event("page", progress))
          /\ UNCHANGED <<logs, failures, progress>>
       \/ /\ failures < MaxFailures
          /\ failures' = failures + 1
          /\ logs' = logs \cup {LogEntry("Fehler beim Scraping", current_page, "")}
          /\ progress' = [progress EXCEPT !.total_pages = @ - 1]
          /\ trace' = update_progress(Append(trace, Event("page", progress)), progress')
    /\ visited_urls' = visited_urls \cup {current_page}
    /\ current_page' = ""
    /\ pc' = "loop"
    /\ UNCHANGED discovered_urls
    /\ UNCHANGED <<unreported_vars, sanitize_vars, url_vars, app_vars, sitemap_vars, pending,
                   workflow_vars>>

\* the rest of the turn: scrape_page(context, url), which logs its failure,
\* and visited_urls.add(url)
FetchPage ==
    /\ pc = "fetch"
    /\ \/ /\ trace' = Append(trace, Event("page", progress))
          /\ UNCHANGED <<logs, failures>>
       \/ /\ failures < MaxFailures
          /\ failures' = failures + 1
          /\ logs' = logs \cup {LogEntry("Fehler beim Scraping", current_page, "")}
          /\ trace' = update_progress(Append(trace, Event("page", progress)), progress)
    /\ visited_urls' = visited_urls \cup {current_page}
    /\ current_page' = ""
    /\ pc' = "loop"
    /\ UNCHANGED <<discovered_urls, progress>>
    /\ UNCHANGED <<unreported_vars, sanitize_vars, url_vars, app_vars, sitemap_vars, pending,
                   workflow_vars>>

\* the page loop is over: log("Lade Assets herunter...") and download_assets()
\* with the assets it fetches
ReportAssets ==
    /\ pc = "loop"
    /\ visited_urls = discovered_urls
    /\ \E n \in 0..MaxAssets :
        trace' = update_progress(trace, progress) \o [k \in 1..n |-> Event("asset", progress)]
    /\ pc' = "downloaded"
    /\ UNCHANGED <<discovered_urls, visited_urls, logs, failures, progress, current_page>>
    /\ UNCHANGED <<unreported_vars, sanitize_vars, url_vars, app_vars, sitemap_vars, pending,
                   workflow_vars>>

\* update_progress({'completed_pages': len(self.visited_urls)}) and
\* log("Scraping abgeschlossen: ...")
ReportCompletion ==
    /\ pc = "downloaded"
    /\ progress' = [progress EXCEPT !.completed_pages = Cardinality(visited_urls)]
    /\ trace' = update_progress(update_progress(trace, progress'), progress')
    /\ pc' = "done"
    /\ UNCHANGED <<discovered_urls, visited_urls, logs, failures, current_page>>
    /\ UNCHANGED <<unreported_vars, sanitize_vars, url_vars, app_vars, sitemap_vars, pending,
                   workflow_vars>>

ProgressNext ==
    \/ ReportStart
    \/ Discover
    \/ ReportTotal
    \/ ReportPage
    \/ FetchPage
    \/ ReportAssets
    \/ ReportCompletion

ProgressSpec == ProgressInit /\ [][ProgressNext]_vars

(***************************************************************************)
(* The page loop and the asset phase of a run whose fetches all succeed:   *)
(* the discovery is over and the failures the model allows a run are       *)
(* behind it.  The steps are those of scrape().                            *)
(***************************************************************************)
AssetBase == "https://www.x.io"

\* the discovery sets of these runs
AssetDiscoveries ==
    { {AssetBase, "https://www.x.io/gallery"},
      {AssetBase, "https://www.x.io/gallery", "https://www.x.io/blog"},
      {AssetBase, "https://www.x.io/gallery", "https://x.io/a.png"} }

AssetInit ==
    /\ base_url = AssetBase
    /\ domain = urlparse(AssetBase).netloc
    /\ pc = "pages"
    /\ discovered_urls \in AssetDiscoveries
    /\ visited_urls = {}
    /\ scraped_pages = {}
    /\ assets = {}
    /\ dirs = {OutputDir}
    /\ files = <<>>
    /\ logs = {}
    /\ assets_to_download = {}
    /\ assets_done = {}
    /\ failures = MaxFailures
    /\ progress = [total_pages |-> Cardinality(discovered_urls), completed_pages |-> 0]
    /\ SanitizeAtRest
    /\ UrlAtRest
    /\ AppAtRest
    /\ SitemapAtRest
    /\ RewriteAtRest
    /\ WorkflowAtRest
    /\ ProgressAtRest

AssetNext == ScrapePage \/ StartDownload \/ DownloadAsset \/ Finish

AssetSpec == AssetInit /\ [][AssetNext]_vars

(***************************************************************************)
(* What the properties below speak of                                      *)
(***************************************************************************)
LoggedIn(lg, kind, a) == \E e \in lg : e.kind = kind /\ e.a = a
Logged(kind, a) == LoggedIn(logs, kind, a)

\* the page of url was fetched, rewritten and saved
PageSaved(url) == url \in scraped_pages /\ ~Logged("Fehler beim Scraping", url)

\* download_asset(url) ran and neither the fetch nor a write of it failed
AssetFetched(url) == url \in assets_done /\ ~Logged("Download fehlgeschlagen", url)

HoldsPage(path, url) ==
    path \in DOMAIN files /\ files[path].kind = "page" /\ files[path].url = url

HoldsAssetIn(fl, path, url) ==
    path \in DOMAIN fl /\ fl[path].kind = "asset" /\ fl[path].url = url

HoldsAsset(path, url) == HoldsAssetIn(files, path, url)

PagePaths == {p \in DOMAIN files : files[p].kind = "page"}

\* a path under the output directory, and the same path seen from the output root
OutPath(rel) == os_path_join(OutputDir, rel)
RootRelative(path) == SubSeq(path, Len(OutputDir) + 2, Len(path))

\* the path download_asset derives from the URL of an asset
asset_path_of(url) == Strip(urlparse(url).path, "/")

\* the file a relative reference ref, found in the file at path, points to
\* (both seen from the output root)
ResolveReference(path, ref) == Strip(urlparse(urljoin("/" \o path, ref)).path, "/")

\* the passes of process_html_assets that register assets
AssetPasses ==
    { <<{"img"}, "src">>, <<{"link"}, "href">>, <<{"script"}, "src">>,
      <<{"video", "audio", "source", "track"}, "src">>, <<{"video"}, "poster">> }

\* the asset references a saved page still holds: <<element, attribute>>
SavedReferences(file) ==
    {ref \in (1..Len(file.dom)) \X {"src", "href", "poster"} :
        /\ file.dom[ref[1]].alive
        /\ file.dom0[ref[1]][ref[2]] # Absent
        /\ \E pass \in AssetPasses : pass[2] = ref[2] /\ file.dom[ref[1]].tag \in pass[1]}

BlogUrl == base_url \o "/blog"
LogoUrl == base_url \o "/blog/logo.png"

(***************************************************************************)
(* C1                                                                      *)
(***************************************************************************)
\* the case of C1: the page /blog/ was saved and the asset /blog/logo.png
\* was downloaded
C1_Case == PageSaved(BlogUrl) /\ AssetFetched(LogoUrl)

\* C1 (amended): when the page /blog/ was saved and the asset /blog/logo.png
\* is downloaded, the asset's own path blog/logo.png is no directory, so no
\* conflict is seen: the asset is stored under its own name blog/logo.png,
\* no file blog/logo_asset.png appears, no rename is logged, and
\* blog/index.html still holds the page.
C1_AssetKeepsItsName ==
    C1_Case =>
        /\ HoldsAsset("out/blog/logo.png", LogoUrl)
        /\ "out/blog/logo_asset.png" \notin DOMAIN files
        /\ ~Logged("Pfad-Konflikt", "blog/logo.png")
        /\ HoldsPage("out/blog/index.html", BlogUrl)

\* the page /blog/ is on disk and the run has downloaded /blog/logo.png into
\* its directory
C1_Witness ==
    /\ C1_Case
    /\ HoldsPage("out/blog/index.html", BlogUrl)
    /\ "out/blog/logo.png" \in DOMAIN files

\* C1 as stated: the asset is stored as blog/logo_asset.png, the rename is
\* logged and blog/index.html still holds the page
C1_AssetRenamed ==
    C1_Case =>
        /\ HoldsAsset("out/blog/logo_asset.png", LogoUrl)
        /\ Logged("Pfad-Konflikt", "blog/logo.png")
        /\ HoldsPage("out/blog/index.html", BlogUrl)

(***************************************************************************)
(* C2                                                                      *)
(***************************************************************************)
\* C2: a download_asset that finds the asset's own path to be a directory
\* (and whose fetch and writes do not fail) logs the conflict, leaves the
\* asset in <name>_asset<ext> beside the directory and changes no file inside
\* the directory
C2_ConflictRenamed ==
    [][\A url \in assets_to_download \ assets_done :
          (/\ pc = "assets"
           /\ assets_done' = assets_done \cup {url}
           /\ ~LoggedIn(logs', "Download fehlgeschlagen", url)
           /\ os_path_isdir(FS, OutPath(asset_path_of(url))))
          => /\ LoggedIn(logs', "Pfad-Konflikt", asset_path_of(url))
             /\ HoldsAssetIn(files', os_path_join(os_path_dirname(OutPath(asset_path_of(url))),
                                                  conflict_name(asset_path_of(url))), url)
             /\ \A q \in DOMAIN files :
                    StartsWith(q, OutPath(asset_path_of(url)) \o "/")
                        => q \in DOMAIN files' /\ files'[q] = files[q]]_vars

(***************************************************************************)
(* C3                                                                      *)
(***************************************************************************)
\* C3: when scrape() reports completion, every URL of the asset set has had
\* its download attempt
C3_AllAssetsAttempted == pc = "done" => assets \subseteq assets_done

(***************************************************************************)
(* C4                                                                      *)
(***************************************************************************)
\* C4: every url(...) reference that process_css_file rewrote in a stored
\* stylesheet, resolved against the place of the stylesheet, is the path the
\* downloader stores the referenced asset at
C4_CssReferenceResolves ==
    \A p \in DOMAIN files :
        files[p].kind = "asset" =>
            \A k \in 1..Len(files[p].css0) :
                css_ref_rewritten(files[p].css0[k], files[p].url, domain,
                                  scraped_pages, discovered_urls)
                => ResolveReference(RootRelative(p), files[p].css[k])
                       = asset_path_of(urljoin(files[p].url, files[p].css0[k]))

(***************************************************************************)
(* C5                                                                      *)
(***************************************************************************)
\* the href of the stylesheet link of a document
StylesheetHref(dom) == dom[CHOOSE i \in 1..Len(dom) : dom[i].tag = "link"].href

\* C5: a finished run without failures over the pages /, /about/ and
\* /contact.html leaves three HTML files and one stylesheet file, referenced
\* as ./style.css, ../style.css and ./style.css
C5_ThreePagesOneStylesheet ==
    (/\ pc = "done"
     /\ failures = 0
     /\ discovered_urls = {base_url, base_url \o "/about", base_url \o "/contact.html"})
    => /\ PagePaths = {"out/index.html", "out/about/index.html", "out/contact.html"}
       /\ {p \in DOMAIN files \ PagePaths : EndsWith(p, ".css")} = {"out/style.css"}
       /\ StylesheetHref(files["out/index.html"].dom) = "./style.css"
       /\ StylesheetHref(files["out/about/index.html"].dom) = "../style.css"
       /\ StylesheetHref(files["out/contact.html"].dom) = "./style.css"

(***************************************************************************)
(* C6                                                                      *)
(***************************************************************************)
\* C6: for every discovered page URL, the link convert_to_relative_path
\* writes into the root page names the file save_html_file writes the page to
C6_LinkNamesSavedFile ==
    \A p \in discovered_urls :
        convert_to_relative_path(p, base_url) = "./" \o RootRelative(html_file_path(p))

(***************************************************************************)
(* C7                                                                      *)
(***************************************************************************)
\* C7 (amended): in every saved page, each img/link/script/video/audio/
\* source/track reference whose URL is on the mirrored domain and is a valid
\* asset (asset extension, no query string or excluded endpoint, no URL of
\* the discovery set) was rewritten to its relative path and its URL is in
\* the asset set; every other such reference stands as it was fetched
C7_ValidReferencesRewritten ==
    \A p \in PagePaths :
        \A ref \in SavedReferences(files[p]) :
            Let(urljoin(files[p].url, files[p].dom0[ref[1]][ref[2]]), LAMBDA absolute_url :
                IF /\ is_same_domain(absolute_url, domain)
                   /\ is_valid_asset(absolute_url, scraped_pages, discovered_urls)
                THEN /\ files[p].dom[ref[1]][ref[2]]
                            = convert_to_relative_path(absolute_url, files[p].url)
                     /\ absolute_url \in assets
                ELSE files[p].dom[ref[1]][ref[2]] = files[p].dom0[ref[1]][ref[2]])

\* a saved page holds a reference that was rewritten and a reference to the
\* mirrored domain, with a query string, that stands as it was fetched
C7_Witness ==
    \E p \in PagePaths :
        /\ \E ref \in SavedReferences(files[p]) :
            files[p].dom[ref[1]][ref[2]] # files[p].dom0[ref[1]][ref[2]]
        /\ \E ref \in SavedReferences(files[p]) :
            /\ files[p].dom[ref[1]][ref[2]] = files[p].dom0[ref[1]][ref[2]]
            /\ Contains(files[p].dom0[ref[1]][ref[2]], "?")
            /\ is_same_domain(urljoin(files[p].url, files[p].dom0[ref[1]][ref[2]]), domain)

\* C7 as stated: in every saved page, each such reference whose URL is on the
\* mirrored domain was rewritten to its relative path and its URL is in the
\* asset set
C7_EveryReferenceRewritten ==
    \A p \in PagePaths :
        \A ref \in SavedReferences(files[p]) :
            Let(urljoin(files[p].url, files[p].dom0[ref[1]][ref[2]]), LAMBDA absolute_url :
                is_same_domain(absolute_url, domain)
                => /\ files[p].dom[ref[1]][ref[2]]
                          = convert_to_relative_path(absolute_url, files[p].url)
                   /\ absolute_url \in assets)

(***************************************************************************)
(* C8                                                                      *)
(***************************************************************************)
\* host without one leading "www."
WithoutWww(host) == IF StartsWith(host, "www.") THEN SubSeq(host, 5, Len(host)) ELSE host

\* the host is the root host, with or without one leading "www."
OnRootHost(url) ==
    Let(urlparse(url).netloc, LAMBDA host :
        host = domain \/ WithoutWww(host) = domain \/ host = WithoutWww(domain))

\* C8: every URL of the discovery set and of the asset set is on the root
\* host, with or without one leading "www."
C8_OnlyRootHost == \A url \in discovered_urls \cup assets : OnRootHost(url)

(***************************************************************************)
(* C9                                                                      *)
(***************************************************************************)
\* C9: no URL is in the asset set and in the discovery set or the set of
\* scraped pages
C9_PagesAreNoAssets == assets \cap (discovered_urls \cup scraped_pages) = {}

\* the homepage, which refers to a.png as an image, was saved while the URL of
\* a.png is a discovered page, and other references became assets
C9_Witness ==
    /\ base_url \o "/a.png" \in discovered_urls
    /\ PageSaved(base_url)
    /\ assets # {}

(***************************************************************************)
(* C10                                                                     *)
(***************************************************************************)
\* C10: the html and body elements of every saved page are still in the
\* document
C10_RootsKept ==
    \A p \in PagePaths :
        \A i \in 1..Len(files[p].dom0) :
            files[p].dom0[i].tag \in {"html", "body"} => files[p].dom[i].alive


(***************************************************************************)
(* C11                                                                     *)
(***************************************************************************)
\* C11: sanitizing a document that was sanitized before removes no element
\* and changes no attribute
C11_SanitizeIdempotent == passes >= 2 => soup = soup_before

(***************************************************************************)
(* C12                                                                     *)
(***************************************************************************)
\* C12: normalize_url gives a URL and the same URL with a trailing slash the
\* same value, and gives a value it returned back unchanged
C12_NormalizeUrlCollapses ==
    called = "normalize_url" =>
        /\ normalize_url(target_url \o "/") = returned
        /\ normalize_url(returned) = returned

\* normalize_url was called on a URL that ends in a slash and on one that
\* does not, here /about/ and /about
C12_Witness ==
    /\ called = "normalize_url"
    /\ target_url = "https://x/about/"
    /\ returned = "https://x/about"
    /\ returned = normalize_url("https://x/about")

(***************************************************************************)
(* C13                                                                     *)
(***************************************************************************)
\* C13: no two distinct URLs of the discovery set are saved to the same
\* output file
C13_OneWritePerFile ==
    \A p, q \in discovered_urls :
        (p # q /\ PageSaved(p) /\ PageSaved(q)) => html_file_path(p) # html_file_path(q)

(***************************************************************************)
(* C14                                                                     *)
(***************************************************************************)
\* the fetch of the page or asset url failed and the failure was logged
PageFailed(url) == Logged("Fehler beim Scraping", url)
DownloadFailed(url) == Logged("Download fehlgeschlagen", url)

\* C14: a failure of a page or of an asset download does not end the run.
\* The step that logs the failure of a page leaves the run in the page loop
\* with that URL, not attempted before, marked as visited; the step that logs
\* the failure of a download leaves it in the download loop with that asset,
\* not attempted before, marked as done.  The asset phase begins only when
\* every discovered URL had its attempt, and completion is reported only when
\* every asset of the snapshot had its attempt.
C14_FailuresDoNotAbort ==
    /\ [](/\ pc \in {"sitemap", "homepage", "pages", "assets", "done"}
          /\ pc \in {"assets", "done"} => visited_urls = discovered_urls
          /\ pc = "done" => assets_done = assets_to_download)
    /\ [][/\ \A url \in discovered_urls :
                (LoggedIn(logs', "Fehler beim Scraping", url) /\ ~PageFailed(url))
                => /\ pc' = "pages"
                   /\ url \notin visited_urls
                   /\ visited_urls' = visited_urls \cup {url}
          /\ \A url \in assets_to_download :
                (LoggedIn(logs', "Download fehlgeschlagen", url) /\ ~DownloadFailed(url))
                => /\ pc' = "assets"
                   /\ url \notin assets_done
                   /\ assets_done' = assets_done \cup {url}
          /\ visited_urls' # visited_urls
                => \E url \in discovered_urls \ visited_urls :
                        visited_urls' = visited_urls \cup {url}
          /\ assets_done' # assets_done
                => \E url \in assets_to_download \ assets_done :
                        assets_done' = assets_done \cup {url}]_vars

\* a run reported completion after the fetch of a page failed, with another
\* page saved and every URL visited
C14_Witness ==
    /\ pc = "done"
    /\ \E url \in visited_urls : PageFailed(url)
    /\ \E url \in visited_urls : PageSaved(url)
    /\ visited_urls = discovered_urls

(***************************************************************************)
(* C15                                                                     *)
(***************************************************************************)
\* the root URL could not be reached: its fetch failed in the discovery and
\* in the page loop
RootUnreachable ==
    /\ Logged("Fehler beim Entdecken von URLs", base_url)
    /\ PageFailed(base_url)

\* C15: a run that could not reach the root URL does not report completion
C15_UnreachableRootIsTerminal == RootUnreachable => pc # "done"

(***************************************************************************)
(* C16                                                                     *)
(***************************************************************************)
\* C16: the number of completed pages reported at the completion of the run
\* is the number of pages that were fetched and saved
C16_CompletedCountsSavedPages ==
    pc = "done" => progress.completed_pages = Cardinality({url \in discovered_urls : PageSaved(url)})

(***************************************************************************)
(* C17                                                                     *)
(***************************************************************************)
\* C17: a thread that was running when cancel_scraping was handled starts no
\* further page fetch and no further asset download
C17_NoFetchAfterStop ==
    [][\A t \in stopped :
          /\ threads'[t].pages_left >= threads[t].pages_left
          /\ threads'[t].assets_left >= threads[t].assets_left]_vars

(***************************************************************************)
(* C18                                                                     *)
(***************************************************************************)
\* C18: at most one scrape thread is alive at any time
C18_OneRunAtATime == Cardinality({t \in 1..Len(threads) : Alive(t)}) <= 1

(***************************************************************************)
(* C19                                                                     *)
(***************************************************************************)
\* C19: no sitemap URL is requested more than once during the discovery
C19_SitemapFetchedOnce == \A u \in DOMAIN fetches : fetches[u] <= 1

(***************************************************************************)
(* C20                                                                     *)
(***************************************************************************)
\* the number of segments of a path: the places where a run of characters
\* other than "/" begins
PathSegments(path) ==
    Cardinality({i \in 1..Len(path) :
                    Ch(path, i) # "/" /\ (i = 1 \/ Ch(path, i - 1) = "/")})

\* one "../" per segment of the referencing page, "./" for the root
PrefixOfPage(url) ==
    IF PathSegments(urlparse(url).path) = 0 THEN "./"
    ELSE Repeat("../", PathSegments(urlparse(url).path))

\* the path has an asset extension or the extension of a page
HasAssetOrPageExtension(path) ==
    EndsWithAny(Lower(path), AssetExtensions) \/ EndsWithAny(path, {".html", ".htm"})

\* the target below the output root: index.html for the root (the empty path
\* and "/"), index.html in the directory of a path that ends in "/" or has no
\* extension, the path itself otherwise
TargetBelowRoot(url) ==
    IF urlparse(url).path \in {"", "/"} THEN "index.html"
    ELSE IF EndsWith(urlparse(url).path, "/") \/ ~HasAssetOrPageExtension(urlparse(url).path)
         THEN Strip(urlparse(url).path, "/") \o "/index.html"
    ELSE Strip(urlparse(url).path, "/")

\* C20: convert_to_relative_path returns one "../" per path segment of the
\* referencing page ("./" for the root) followed by the target, with
\* index.html appended to a target that is the root, ends in "/" or has no
\* asset or page extension; https://x/a/b/c from https://x/ is
\* ./a/b/c/index.html and https://x/img.png from https://x/a/b/ is ../../img.png
C20_RelativePath ==
    called = "convert_to_relative_path" =>
        /\ returned = PrefixOfPage(page_url) \o TargetBelowRoot(target_url)
        /\ (target_url = "https://x/a/b/c" /\ page_url = "https://x/")
                => returned = "./a/b/c/index.html"
        /\ (target_url = "https://x/img.png" /\ page_url = "https://x/a/b/")
                => returned = "../../img.png"

C20_Witness ==
    /\ called = "convert_to_relative_path"
    /\ target_url = "https://x/img.png"
    /\ page_url = "https://x/a/b/"
    /\ returned = "../../img.png"

(***************************************************************************)
(* C21                                                                     *)
(***************************************************************************)
\* the path-mapping rule of a page, seen from the output root: index.html for
\* the root, <path>/index.html for a path ending in "/", <path> itself for a
\* path with a page-like extension, <path>/index.html for any other path
PageFileOfRule(path) ==
    IF path \in {"", "/"} THEN "index.html"
    ELSE IF EndsWith(path, "/") THEN Strip(path, "/") \o "/index.html"
    ELSE IF EndsWithAny(Lower(path), PageExtensions) THEN Strip(path, "/")
    ELSE Strip(path, "/") \o "/index.html"

\* C21: every saved page is stored in the file the path-mapping rule names
C21_PageStoredByRule ==
    \A url \in discovered_urls :
        PageSaved(url) => OutPath(PageFileOfRule(urlparse(url).path)) \in DOMAIN files

(***************************************************************************)
(* C22                                                                     *)
(***************************************************************************)
\* how far below the directory it starts in a walk along the segments ends,
\* or -1 once the walk has left that directory
RECURSIVE DepthBelow(_, _)
DepthBelow(segs, depth) ==
    IF depth < 0 \/ Len(segs) = 0 THEN depth
    ELSE IF segs[1] = ".." THEN DepthBelow(Tail(segs), depth - 1)
    ELSE IF segs[1] \in {"", "."} THEN DepthBelow(Tail(segs), depth)
    ELSE DepthBelow(Tail(segs), depth + 1)

\* the path names a file inside the output directory
InsideOutputDir(path) ==
    /\ StartsWith(path, OutputDir \o "/")
    /\ DepthBelow(Split(RootRelative(path), "/"), 0) > 0

\* C22: every file of an asset lies inside the output directory, at the URL
\* path of the asset taken from the output root
C22_AssetsInsideOutputDir ==
    \A path \in DOMAIN files : files[path].kind = "asset" => InsideOutputDir(path)

(***************************************************************************)
(* C23                                                                     *)
(***************************************************************************)
\* the page of url rewritten by itself and in the order of the code: none
\* scraped before it, no asset yet
RewrittenAlone(url) ==
    process_html_assets(RewriteDom(url), {}, url, domain, {}, discovered_urls)

\* C23: between two pages, whatever pages were scraped before and in whatever
\* order the loops over the reference attributes ran, every page on disk holds
\* the HTML that rewriting it by itself in the order of the code gives, and the
\* asset set is the union of the assets of the pages scraped, each by itself
C23_RewritesOrderIndependent ==
    current_page = "" =>
        /\ \A url \in visited_urls :
                HoldsPage(html_file_path(url), url)
                    => files[html_file_path(url)].dom = RewrittenAlone(url).dom
        /\ assets = UNION {RewrittenAlone(url).assets : url \in scraped_pages}

\* the page /media was rewritten after another page and is on disk, and it
\* has added assets
C23_Witness ==
    /\ current_page = ""
    /\ Cardinality(visited_urls) >= 2
    /\ HoldsPage("out/media/index.html", "https://www.x.io/media")
    /\ "https://www.x.io/v.mp4" \in assets
    /\ "https://www.x.io/subs.txt" \in assets

(***************************************************************************)
(* C24                                                                     *)
(***************************************************************************)
\* C24: the discovery set never loses a URL, no step after the discovery
\* (a page scraped, the download begun, an asset downloaded, the run
\* finished) changes it, and the pages attempted are pages of it: all of
\* them once the page loop is over
C24_DiscoveryEndsBeforeScraping ==
    /\ [](/\ visited_urls \subseteq discovered_urls
          /\ scraped_pages \subseteq discovered_urls
          /\ pc \in {"assets", "done"} => visited_urls = discovered_urls)
    /\ [][/\ discovered_urls \subseteq discovered_urls'
          /\ pc \in {"pages", "assets", "done"} => discovered_urls' = discovered_urls]_vars

\* the run is over: the homepage with its link to /about/ was scraped while
\* /about was not discovered, and an asset was downloaded
C24_Witness ==
    /\ pc = "done"
    /\ base_url = "https://www.x.io"
    /\ PageSaved(base_url)
    /\ "https://www.x.io/about" \notin discovered_urls
    /\ Cardinality(discovered_urls) >= 2
    /\ assets_done # {}

(***************************************************************************)
(* C25                                                                     *)
(***************************************************************************)
\* C25: while a discovered page is not yet attempted no asset was requested,
\* no file of an asset is on disk and the download has no snapshot of the
\* assets; and an asset is requested only by a step of the asset phase
C25_AssetsAfterPages ==
    /\ [](visited_urls # discovered_urls =>
            /\ assets_done = {}
            /\ assets_to_download = {}
            /\ \A path \in DOMAIN files : files[path].kind # "asset")
    /\ [][assets_done' # assets_done =>
            /\ pc = "assets"
            /\ visited_urls = discovered_urls
            /\ \A url \in discovered_urls : PageSaved(url) \/ PageFailed(url)]_vars

\* an asset is downloaded after two pages were attempted, one of them saved
\* and one failed
C25_Witness ==
    /\ pc = "assets"
    /\ assets_done # {}
    /\ \E path \in DOMAIN files : files[path].kind = "asset"
    /\ \E url \in visited_urls : PageSaved(url)
    /\ \E url \in visited_urls : PageFailed(url)

(***************************************************************************)
(* C26                                                                     *)
(***************************************************************************)
\* the places of the trace where the total_pages emitted or at hand differs
\* from the one before (0 at the start of the run)
TotalChanges ==
    {i \in 1..Len(trace) :
        trace[i].total_pages # (IF i = 1 THEN 0 ELSE trace[i - 1].total_pages)}

\* C26: total_pages is reported once, by an update after the discovery and
\* before the first page fetch, as the number of discovered URLs, and stays as
\* it is (a failed page does not change it); completed_pages never decreases
\* and never exceeds total_pages; an update is emitted before every page fetch,
\* after it before anything else is fetched, at the start and at the end of
\* the run
C26_ProgressReports ==
    /\ Cardinality(TotalChanges) <= 1
    /\ \A i \in TotalChanges :
            /\ trace[i].kind = "update"
            /\ trace[i].total_pages = Cardinality(discovered_urls)
            /\ \A j \in 1..i : trace[j].kind # "page"
            /\ \E j \in 1..i : trace[j].kind = "home"
    /\ pc \in {"loop", "fetch", "downloaded", "done"} =>
            /\ TotalChanges # {}
            /\ progress.total_pages = Cardinality(discovered_urls)
    /\ \A i \in 1..(Len(trace) - 1) :
            trace[i + 1].completed_pages >= trace[i].completed_pages
    /\ \A i \in 1..Len(trace) : trace[i].completed_pages <= trace[i].total_pages
    /\ \A i \in 1..Len(trace) :
            trace[i].kind = "page" =>
                /\ i > 1 /\ trace[i - 1].kind = "update"
                /\ i < Len(trace) => trace[i + 1].kind = "update"
    /\ Len(trace) > 0 => trace[1].kind = "update"
    /\ pc = "done" =>
            /\ trace[Len(trace)].kind = "update"
            /\ trace[Len(trace)].completed_pages = Cardinality(visited_urls)
            /\ Cardinality({i \in 1..Len(trace) : trace[i].kind = "page"})
                    = Cardinality(discovered_urls)

\* a run is over in which three pages were fetched, one of them failed, and
\* an asset was downloaded
C26_Witness ==
    /\ pc = "done"
    /\ Cardinality(discovered_urls) = 3
    /\ \E url \in visited_urls : PageFailed(url)
    /\ \E i \in 1..Len(trace) : trace[i].kind = "asset"
    /\ trace[Len(trace)].completed_pages = 3
    /\ trace[Len(trace)].total_pages = 3

(***************************************************************************)
(* C27                                                                     *)
(***************************************************************************)
\* C27: a path that holds the file of a page never comes to hold an asset and
\* a path that holds an asset never comes to hold a page, so the paths ever
\* written for pages and those ever written for assets are disjoint; the
\* asset phase leaves every file of a page as it is; and the two kinds of
\* path differ by their ending
C27_PageAndAssetFilesApart ==
    /\ [][\A path \in DOMAIN files :
            /\ path \in DOMAIN files'
            /\ files'[path].kind = files[path].kind
            /\ (pc = "assets" /\ files[path].kind = "page") => files'[path] = files[path]]_vars
    /\ [](\A path \in DOMAIN files :
            EndsWith(path, ".html") <=> files[path].kind = "page")

\* the page https://x.io/a.png is on disk and the asset https://www.x.io/a.png
\* was downloaded
C27_Witness ==
    /\ HoldsPage("out/a.png/index.html", "https://x.io/a.png")
    /\ AssetFetched("https://www.x.io/a.png")
    /\ \E path \in DOMAIN files : files[path].kind = "asset"

(***************************************************************************)
(* C28                                                                     *)
(***************************************************************************)
\* the file download_asset stored the asset of url in: the renamed one when
\* it logged a path conflict for the asset, the URL path of the asset else
StoredAt(url) ==
    IF \E e \in logs : e.kind = "Pfad-Konflikt" /\ e.a = asset_path_of(url)
    THEN os_path_join(os_path_dirname(OutPath(asset_path_of(url))),
                      conflict_name(asset_path_of(url)))
    ELSE OutPath(asset_path_of(url))

\* C28: in every saved page, each rewritten reference to an asset that was
\* downloaded names, seen from the page, the file the asset was stored in
C28_ReferenceNamesStoredFile ==
    \A p \in PagePaths :
        \A ref \in SavedReferences(files[p]) :
            Let(urljoin(files[p].url, files[p].dom0[ref[1]][ref[2]]), LAMBDA absolute_url :
                (/\ files[p].dom[ref[1]][ref[2]] # files[p].dom0[ref[1]][ref[2]]
                 /\ AssetFetched(absolute_url)
                 /\ StoredAt(absolute_url) \in DOMAIN files)
                => ResolveReference(RootRelative(p), files[p].dom[ref[1]][ref[2]])
                      = RootRelative(StoredAt(absolute_url)))

(***************************************************************************)
(* C29                                                                     *)
(***************************************************************************)
\* the output directory as the page loop left it: the files of the pages and
\* the directories above them
AfterPages ==
    [ok |-> TRUE,
     dirs |-> {OutputDir} \cup UNION {AncestorsAndSelf(os_path_dirname(p)) : p \in PagePaths},
     files |-> [p \in PagePaths |-> files[p]]]

\* the names of the files in the output directory after the assets of the set
\* urls were downloaded into fs one after the other, in an order of its own
RECURSIVE NamesAfterDownloads(_, _)
NamesAfterDownloads(fs, urls) ==
    IF urls = {} THEN DOMAIN fs.files
    ELSE Let(CHOOSE url \in urls : TRUE, LAMBDA url :
         Let(download_asset(fs, {}, {}, url, CssBody(url), domain, scraped_pages,
                            discovered_urls), LAMBDA r :
             NamesAfterDownloads([ok |-> TRUE, dirs |-> r.dirs, files |-> r.files],
                                 urls \ {url})))

\* C29: when the run is over and no request failed, the names of the files in
\* the output directory are those one fixed order of the downloads gives
C29_DownloadOrderIrrelevant ==
    pc = "done" => DOMAIN files = NamesAfterDownloads(AfterPages, assets_to_download)

(***************************************************************************)
(* C30                                                                     *)
(***************************************************************************)
\* C30: the executions a workflow session has counted, completed and failed,
\* are never more than its total_tasks
C30_CountedWithinTotal ==
    session_progress.completed + session_progress.failed <= session_progress.total_tasks
====
